---- MODULE Spec2Model ----
(***************************************************************************)
(* A model of the data-science exercises of ai_learning_2025.  Every       *)
(* function of the repository is stateless: the state of the model is the  *)
(* last call made (op), the argument it was given (arg) and what it        *)
(* produced (res: what was raised, and the returned value).  A call is     *)
(* made from the idle state and Return goes back to it, so every behaviour *)
(* is a sequence of independent calls.                                     *)
(*                                                                         *)
(* Python values.  A list item is a record tagged by its Python type:      *)
(*   None            [k |-> "None"]                                        *)
(*   float           [k |-> "float", nan, hi, lo2]   value lo2 / 2         *)
(*   int             [k |-> "int", hi, lo]           value hi*UnixY2K + lo *)
(*   str             [k |-> "str", s]                                      *)
(* Dictionaries are records; a key with a blank is written with an         *)
(* underscore ('data points' is data_points).  An f-string is the sequence *)
(* of its parts, and so is every error message.                            *)
(*                                                                         *)
(* Arithmetic.  numpy computes in float64; the model computes exactly.     *)
(* A number a*UnixY2K + b/2 is the vector <<0, a, b>>, the square of such  *)
(* a number is <<a*a, a*b, b*b>> (weights UnixY2K^2, UnixY2K, 1/4), and    *)
(* the sign of a vector is the sign of its first non-zero entry, which is  *)
(* exact because every entry stays far below UnixY2K.                      *)
(***************************************************************************)
EXTENDS Integers, Sequences, FiniteSets, TLC

VARIABLES op, arg, res

vars == <<op, arg, res>>

\* Lengths of the lists the calls are given.
MaxMixedLen == 4
MaxNumLen == 6
MaxDatesLen == 5
\* Rows of a table.
MaxRows == 3
\* Height and width of an image.
MaxDim == 4
\* Pixels of an image whose brightness is adjusted.
MaxPixels == 2
\* Rows of a table searched for outliers.
MaxAmounts == 5
\* Rows of a table of customers.
MaxCustomers == 2
\* Rows of a table to clean.
MaxCleanRows == 2
\* Ages of a series.
MaxAges == 3
\* Width of the border of an image.
MaxBorder == 2
\* Items of a list with lists among its items.
MaxNestedLen == 3
\* Items of a list whose analysis is reported.
MaxReportLen == 3
\* Length of a list whose sampled indices are computed.
MaxSampled == 250

\* ---------------------------------------------------------------- values

UnixY2K == 946684800

NoneItem == [k |-> "None"]

FloatNaN == [k |-> "float", nan |-> TRUE, hi |-> 0, lo2 |-> 0]

PyFloat(lo2) == [k |-> "float", nan |-> FALSE, hi |-> 0, lo2 |-> lo2]

PyInt(hi, lo) == [k |-> "int", hi |-> hi, lo |-> lo]

PyStr(s) == [k |-> "str", s |-> s]

IsNone(item) == item.k = "None"

IsFloat(item) == item.k = "float"

IsInt(item) == item.k = "int"

IsStr(item) == item.k = "str"

\* pd.isna(item) of a scalar: None and the float NaN.
PdIsna(item) == IsNone(item) \/ (IsFloat(item) /\ item.nan)

\* isinstance(item, (int, float, np.number))
IsNumber(item) == IsInt(item) \/ IsFloat(item)

\* The number an int or a float (not NaN) stands for, in halves.
Num(item) == IF IsInt(item) THEN <<0, item.hi, 2 * item.lo>> ELSE <<0, item.hi, item.lo2>>

VAdd(a, b) == <<a[1] + b[1], a[2] + b[2], a[3] + b[3]>>

VScale(n, a) == <<n * a[1], n * a[2], n * a[3]>>

VSub(a, b) == VAdd(a, VScale(-1, b))

Sgn(n) == IF n > 0 THEN 1 ELSE IF n < 0 THEN -1 ELSE 0

VSign(a) == IF a[1] # 0 THEN Sgn(a[1]) ELSE IF a[2] # 0 THEN Sgn(a[2]) ELSE Sgn(a[3])

VLess(a, b) == VSign(VSub(a, b)) < 0

\* The square of a number a[2]*UnixY2K + a[3]/2.
VSq(a) == <<a[2] * a[2], a[2] * a[3], a[3] * a[3]>>

Zero == <<0, 0, 0>>

RECURSIVE VSum(_)
VSum(vs) == IF vs = <<>> THEN Zero ELSE VAdd(Head(vs), VSum(Tail(vs)))

RECURSIVE SeqsUpTo(_, _)
SeqsUpTo(S, n) ==
  IF n = 0 THEN {<<>>}
  ELSE LET shorter == SeqsUpTo(S, n - 1)
       IN shorter \cup {Append(s, x) : s \in {t \in shorter : Len(t) = n - 1}, x \in S}

Returned(v) == [raised |-> "none", ret |-> v]

Raised(e) == [raised |-> e]

\* ------------------------------------------------- day_02: numeric analyzer

\* np.mean(cdata) as the pair (sum, count).
NpMean(cdata) == [sum |-> VSum([i \in 1..Len(cdata) |-> Num(cdata[i])]), n |-> Len(cdata)]

\* np.std(cdata), the population standard deviation sqrt(mean(|x - mean|^2)), kept
\* as the sum of the squares of n*x - sum and the divisor n: std^2 = sqdev / (n^2 * n).
NpStd(cdata) ==
  LET m == NpMean(cdata)
      dev(x) == VSq(VSub(VScale(m.n, Num(x)), m.sum))
  IN [sqdev |-> VSum([i \in 1..Len(cdata) |-> dev(cdata[i])]), n |-> Len(cdata)]

\* x < mean - 2 * std: d = n*(mean - x) is positive and d^2 > 4 * n^2 * std^2.
BelowLow(x, mean, std) ==
  LET d == VSub(mean.sum, VScale(mean.n, Num(x)))
  IN VSign(d) > 0 /\ VLess(VScale(4, std.sqdev), VScale(std.n, VSq(d)))

\* x > mean + 2 * std
AboveHigh(x, mean, std) ==
  LET d == VSub(VScale(mean.n, Num(x)), mean.sum)
  IN VSign(d) > 0 /\ VLess(VScale(4, std.sqdev), VScale(std.n, VSq(d)))

\* find_outlier with <= and >= in place of < and >.
find_outlier_inclusive(cdata) ==
  LET std == NpStd(cdata)
      mean == NpMean(cdata)
      d(x) == VSub(VScale(mean.n, Num(x)), mean.sum)
  IN SelectSeq(cdata, LAMBDA x : ~VLess(VScale(std.n, VSq(d(x))), VScale(4, std.sqdev)))

find_outlier(cdata) ==
  LET std == NpStd(cdata)
      mean == NpMean(cdata)
  IN SelectSeq(cdata, LAMBDA x : BelowLow(x, mean, std) \/ AboveHigh(x, mean, std))

RECURSIVE NpMin(_)
NpMin(cdata) ==
  IF Len(cdata) = 1 THEN Head(cdata)
  ELSE LET rest == NpMin(Tail(cdata))
       IN IF VLess(Num(rest), Num(Head(cdata))) THEN rest ELSE Head(cdata)

RECURSIVE NpMax(_)
NpMax(cdata) ==
  IF Len(cdata) = 1 THEN Head(cdata)
  ELSE LET rest == NpMax(Tail(cdata))
       IN IF VLess(Num(Head(cdata)), Num(rest)) THEN rest ELSE Head(cdata)

\* An item that is itself a list.
PyList(items) == [k |-> "list", items |-> items]

IsList(item) == item.k = "list"

\* `item is None or pd.isna(item)` as the if statement takes it.  pd.isna of a list
\* is an array of one truth value per element: an array of one element stands for
\* its element, and the truth value of a longer one raises ValueError.
IsnaTest(item) ==
  IF ~IsList(item) THEN (IF IsNone(item) \/ PdIsna(item) THEN "True" ELSE "False")
  ELSE CASE Len(item.items) > 1 -> "ValueError"
         [] Len(item.items) = 1 -> IF PdIsna(item.items[1]) THEN "True" ELSE "False"

\* The loop's first test without pd.isna: a NaN is taken for a number.
QualityGroup_no_isna(item) ==
  IF IsNone(item) THEN "excluded_nan_none"
  ELSE IF ~IsNumber(item) THEN "excluded_non_numeric"
  ELSE "valid_data"

\* The loop's first test with a list never tested by pd.isna: it is no number.
QualityGroup_list_not_tested(item) ==
  IF IsList(item) THEN "excluded_non_numeric"
  ELSE IF IsNone(item) \/ PdIsna(item) THEN "excluded_nan_none"
  ELSE IF ~IsNumber(item) THEN "excluded_non_numeric"
  ELSE "valid_data"

\* One step of the loop of check_data_quality: the group the item is appended to, or
\* the exception the step raises.
QualityGroup(item) ==
  IF IsnaTest(item) = "ValueError" THEN "ValueError"
  ELSE IF IsnaTest(item) = "True" THEN "excluded_nan_none"
  ELSE IF ~IsNumber(item) THEN "excluded_non_numeric"
  ELSE "valid_data"

\* The loop stops at the first item whose step raises.
RECURSIVE QualityLoop(_, _)
QualityLoop(data, groups) ==
  IF data = <<>> THEN groups
  ELSE LET item == Head(data)
       IN IF QualityGroup(item) = "ValueError" THEN [groups EXCEPT !.raised = "ValueError"]
          ELSE QualityLoop(Tail(data), [groups EXCEPT ![QualityGroup(item)] = Append(@, item)])

check_data_quality(data) ==
  LET groups == QualityLoop(data, [valid_data |-> <<>>, excluded_non_numeric |-> <<>>,
                                   excluded_nan_none |-> <<>>, raised |-> "none"])
      valid_data == groups.valid_data
  IN IF groups.raised # "none" THEN Raised(groups.raised)
     ELSE IF valid_data = <<>>
     THEN Returned([data_points |-> Len(data),
                    valid_data_points |-> 0,
                    error |-> <<"No valid data points to analyze">>,
                    excluded_non_numeric |-> groups.excluded_non_numeric,
                    excluded_nan_none |-> groups.excluded_nan_none])
     ELSE Returned([analysis |-> "numerical",
                    data_points |-> Len(data),
                    valid_data_points |-> Len(valid_data),
                    std |-> NpStd(valid_data),
                    mean |-> NpMean(valid_data),
                    min |-> NpMin(valid_data),
                    max |-> NpMax(valid_data),
                    outliers |-> find_outlier(valid_data),
                    excluded_non_numeric |-> groups.excluded_non_numeric,
                    excluded_nan_none |-> groups.excluded_nan_none])

\* --------------------------------------------- day_02: categorical analyzer

\* item % 1 == 0 of a float (NaN % 1 is NaN, which is not 0).
FloatIsWhole(item) == ~item.nan /\ item.lo2 % 2 = 0

\* The loop without its test for the empty string: "" is taken for a category.
CategoricalGroup_no_empty_test(item) ==
  IF IsFloat(item) THEN (IF FloatIsWhole(item) THEN "num" ELSE "invalid_float")
  ELSE IF IsInt(item) THEN "num"
  ELSE IF IsNone(item) \/ PdIsna(item) THEN "none"
  ELSE IF IsStr(item) THEN "str"
  ELSE "invalid"

\* The loop with a fractional float that raises the flag `floats` and is counted
\* nowhere.
CategoricalGroup_float_not_counted(item) ==
  IF IsFloat(item) THEN (IF FloatIsWhole(item) THEN "num" ELSE "float")
  ELSE IF IsInt(item) THEN "num"
  ELSE IF IsNone(item) \/ PdIsna(item) THEN "none"
  ELSE IF item = PyStr("") THEN "empty_string"
  ELSE IF IsStr(item) THEN "str"
  ELSE "invalid"

\* One step of the loop of check_categorical_quality: what the item is counted as.
CategoricalGroup(item) ==
  IF IsFloat(item) THEN (IF FloatIsWhole(item) THEN "num" ELSE "invalid_float")
  ELSE IF IsInt(item) THEN "num"
  ELSE IF IsNone(item) \/ PdIsna(item) THEN "none"
  ELSE IF item = PyStr("") THEN "empty_string"
  ELSE IF IsStr(item) THEN "str"
  ELSE "invalid"

\* The key a value has in value_counts(): numbers by value (1 and 1.0 are one key).
CountKey(item) == IF IsStr(item) THEN [k |-> "str", s |-> item.s] ELSE [k |-> "num", v |-> Num(item)]

\* series.value_counts().to_dict()
ValueCounts(items) ==
  [key \in {CountKey(items[i]) : i \in 1..Len(items)} |->
     Cardinality({i \in 1..Len(items) : CountKey(items[i]) = key})]

check_categorical_quality(data) ==
  LET group(g) == SelectSeq(data, LAMBDA item : CategoricalGroup(item) = g)
      valid_data == SelectSeq(data, LAMBDA item : CategoricalGroup(item) \in {"num", "str"})
      empty_string_count == Len(group("empty_string"))
      invalid_type == Len(group("invalid_float")) + Len(group("invalid"))
      str_count == Len(group("str"))
      none_count == Len(group("none"))
      floats == group("invalid_float") # <<>>
      warnings ==
        IF floats THEN <<"Float detected, did you want numerical analysis?">>
        ELSE IF valid_data # <<>> /\ 2 * str_count <= Len(valid_data)
             THEN <<"not many strings, did you want numerical analysis?">>
             ELSE <<>>
      analysis == [analysis |-> "categorical",
                   total_values |-> Len(data),
                   valid_categories |-> Len(valid_data),
                   missing_none |-> none_count,
                   missing_empty_string |-> empty_string_count,
                   invalid_type_count |-> invalid_type,
                   frequency_distribution |-> ValueCounts(valid_data),
                   unique_count |-> Cardinality(DOMAIN ValueCounts(valid_data))]
  IN IF valid_data = <<>>
     THEN Returned([analysis |-> "categorical", error |-> <<"no valid data points">>])
     ELSE IF warnings # <<>>
          THEN Returned(analysis @@ [warnings |-> warnings])
          ELSE Returned(analysis)

\* ------------------------------------------------ day_02: temporal analyzer

\* A time is the vector <<days, a, b>>: days since 1970-01-01 plus a*UnixY2K + b
\* nanoseconds.  NaT stands for pandas's NaT.
NaT == <<-1, 0, 0>>

EpochDay2024 == 19723

\* The strings pandas parses as dates; every other string is coerced to NaT.
DateStrings == {"2024-01-01", "2024-01-02", "2024-01-03", "2024-01-04", "2024-01-05",
                "2024-01-06"}

DayOfJanuary(s) ==
  CASE s = "2024-01-01" -> 1 [] s = "2024-01-02" -> 2 [] s = "2024-01-03" -> 3
    [] s = "2024-01-04" -> 4 [] s = "2024-01-05" -> 5 [] s = "2024-01-06" -> 6

\* pd.to_datetime(item, errors='coerce'): a date string is its day, a number is that
\* many nanoseconds after the epoch (a float loses its fraction), anything else is NaT.
ToDatetime(item) ==
  IF IsStr(item) THEN (IF item.s \in DateStrings
                       THEN <<EpochDay2024 - 1 + DayOfJanuary(item.s), 0, 0>> ELSE NaT)
  ELSE IF PdIsna(item) THEN NaT
  ELSE IF IsInt(item) THEN <<0, item.hi, item.lo>>
  ELSE <<0, 0, item.lo2 \div 2>>

\* series.dropna(): the valid timestamps with the index labels they keep.
ValidSeries(data) ==
  LET labelled == [i \in 1..Len(data) |-> [label |-> i - 1, t |-> ToDatetime(data[i])]]
  IN SelectSeq(labelled, LAMBDA e : e.t # NaT)

\* valid_series.diff().dropna(): each difference carries the label of its later date.
TimeDeltas(valid_series) ==
  [i \in 1..(Len(valid_series) - 1) |->
     [label |-> valid_series[i + 1].label, d |-> VSub(valid_series[i + 1].t, valid_series[i].t)]]

\* time_deltas.mode()[0]: the smallest of the most frequent differences.
Mode0(time_deltas) ==
  LET count(d) == Cardinality({i \in 1..Len(time_deltas) : time_deltas[i].d = d})
      values == {time_deltas[i].d : i \in 1..Len(time_deltas)}
      modes == {d \in values : \A e \in values : count(e) <= count(d)}
  IN CHOOSE d \in modes : \A e \in modes : ~VLess(e, d)

\* delta > most_common * 1.5
IsLargeGap(delta, most_common) == VLess(VScale(3, most_common), VScale(2, delta))

RECURSIVE TimeMin(_)
TimeMin(ts) ==
  IF Len(ts) = 1 THEN Head(ts).t
  ELSE LET rest == TimeMin(Tail(ts)) IN IF VLess(rest, Head(ts).t) THEN rest ELSE Head(ts).t

RECURSIVE TimeMax(_)
TimeMax(ts) ==
  IF Len(ts) = 1 THEN Head(ts).t
  ELSE LET rest == TimeMax(Tail(ts)) IN IF VLess(Head(ts).t, rest) THEN rest ELSE Head(ts).t

\* valid_series.value_counts() restricted to the times that occur more than once.
RepeatedTimes(valid_series) ==
  LET count(t) == Cardinality({i \in 1..Len(valid_series) : valid_series[i].t = t})
  IN [t \in {valid_series[i].t : i \in {j \in 1..Len(valid_series) : count(valid_series[j].t) > 1}}
        |-> count(t)]

check_temporal_quality(data) ==
  LET valid_series == ValidSeries(data)
      labels == {valid_series[i].label : i \in 1..Len(valid_series)}
      at(label) == (CHOOSE e \in {valid_series[i] : i \in 1..Len(valid_series)} : e.label = label).t
      time_deltas == TimeDeltas(valid_series)
      analysis == [analysis |-> "temporal",
                   total_values |-> Len(data),
                   total_valid_values |-> Len(valid_series),
                   invalid_values |-> Len(data) - Len(valid_series),
                   earliest |-> TimeMin(valid_series),
                   latest |-> TimeMax(valid_series),
                   repeated_times |-> RepeatedTimes(valid_series),
                   diff |-> time_deltas,
                   gaps_detected |-> 0]
      most_common == Mode0(time_deltas)
      large_gaps == SelectSeq(time_deltas, LAMBDA e : IsLargeGap(e.d, most_common))
      gap_indices == [i \in 1..Len(large_gaps) |-> large_gaps[i].label]
      regular == analysis @@ [detected_frequency |-> most_common]
  IN IF valid_series = <<>> THEN Returned([error |-> <<"no valid data">>])
     ELSE IF Cardinality({time_deltas[i].d : i \in 1..Len(time_deltas)}) = Len(time_deltas)
     THEN Returned(analysis @@ [pattern |-> "irregular", gaps |-> "N/A - no regular pattern"])
     ELSE IF Len(large_gaps) > 0
     THEN IF \E i \in 1..Len(gap_indices) : gap_indices[i] - 1 \notin labels
          THEN Raised("KeyError")
          ELSE Returned([regular EXCEPT !.gaps_detected = Len(large_gaps)]
                        @@ [gap_after_dates |-> [i \in 1..Len(gap_indices) |-> at(gap_indices[i] - 1)]])
     ELSE Returned([regular EXCEPT !.gaps_detected = Len(large_gaps)])

\* ------------------------------------------------------ day_02: dispatcher

\* int(N / (1 + N * (e ** 2))) with e = 0.1.  In float64 e ** 2 is
\* 0.010000000000000002; the quotient's integer part is that of 100*N / (100 + N)
\* for every N below 400.
SampleSize(N) == (100 * N) \div (100 + N)

\* The sampling with the frequency rounded to the nearest integer instead of cut.
SampleIndices_rounded_frequency(N) ==
  LET sample_size == SampleSize(N)
      frequency == (2 * N + sample_size) \div (2 * sample_size)
  IN IF N < 2 * sample_size THEN 0..(N - 1)
     ELSE {i \in 0..(N - 1) : i % frequency = 0}

\* range(N) when N / sample_size < 2, else range(0, N, int(N / sample_size)); as
\* 0-based indices.  Only evaluated for sample_size > 0.
SampleIndices(N) ==
  LET sample_size == SampleSize(N)
      frequency == N \div sample_size
  IN IF N < 2 * sample_size THEN 0..(N - 1)
     ELSE {i \in 0..(N - 1) : i % frequency = 0}

\* pd.to_datetime([item], errors='raise') of a string does not raise: the string is a
\* date, or empty (which pandas reads as NaT).
ParsesAsDate(s) == s \in DateStrings \/ s = ""

\* item > 946684800
AfterY2K(item) == item.hi * UnixY2K + item.lo > UnixY2K

\* What one sampled item adds to temp_count, num_count and cat_count.
Skipped(item) == IsNone(item) \/ (IsFloat(item) /\ PdIsna(item))

TempVote(item) ==
  IF IsStr(item) THEN (IF ParsesAsDate(item.s) THEN 1 ELSE 0)
  ELSE IF IsInt(item) /\ AfterY2K(item) THEN 1
  ELSE 0

NumVote(item) == IF IsNumber(item) /\ ~PdIsna(item) THEN 1 ELSE 0

CatVote(item) ==
  IF IsStr(item) \/ IsInt(item) THEN 1
  ELSE IF IsFloat(item) /\ ~PdIsna(item) /\ FloatIsWhole(item) THEN 1
  ELSE 0

\* The loop over sample_indices: the votes of the sampled items that are not skipped.
RECURSIVE SumOver(_, _)
SumOver(votes, indices) ==
  IF indices = {} THEN 0
  ELSE LET i == CHOOSE j \in indices : TRUE
       IN votes[i + 1] + SumOver(votes, indices \ {i})

\* Routing with strict comparisons, which sends every tie down the list.
Route_strict(temp_count, num_count, cat_count) ==
  IF temp_count > num_count /\ temp_count > cat_count THEN "check_temporal_quality"
  ELSE IF num_count > cat_count THEN "check_data_quality"
  ELSE "check_categorical_quality"

\* The type check_data decides on (precedence: temporal > numeric > categorical).
Route(temp_count, num_count, cat_count) ==
  IF temp_count >= num_count /\ temp_count >= cat_count THEN "check_temporal_quality"
  ELSE IF num_count >= cat_count THEN "check_data_quality"
  ELSE "check_categorical_quality"

Analyze(analyzer, data) ==
  CASE analyzer = "check_temporal_quality" -> check_temporal_quality(data)
    [] analyzer = "check_data_quality" -> check_data_quality(data)
    [] analyzer = "check_categorical_quality" -> check_categorical_quality(data)

\* The result of check_data, with the analyzers it called on the way.
check_data(data) ==
  LET N == Len(data)
      sample_indices == SampleIndices(N)
      counted(i) == ~Skipped(data[i])
      num_count == SumOver([i \in 1..N |-> IF counted(i) THEN NumVote(data[i]) ELSE 0], sample_indices)
      temp_count == SumOver([i \in 1..N |-> IF counted(i) THEN TempVote(data[i]) ELSE 0], sample_indices)
      cat_count == SumOver([i \in 1..N |-> IF counted(i) THEN CatVote(data[i]) ELSE 0], sample_indices)
      analyzer == Route(temp_count, num_count, cat_count)
  IN IF data = <<>> THEN Returned([error |-> <<"empty dataset">>]) @@ [called |-> <<>>]
     ELSE IF SampleSize(N) = 0 THEN Raised("ZeroDivisionError") @@ [called |-> <<>>]
     ELSE Analyze(analyzer, data) @@ [called |-> <<analyzer>>]

\* ------------------------------------------------- day_02: analyze_csv_file

\* What is at a path: nothing, something pd.read_csv cannot read (it raises exc with
\* the message msg), or a CSV file whose first column holds the cells.
MissingFile == [kind |-> "missing", exc |-> "FileNotFoundError", msg |-> "", cells |-> <<>>]

UnreadableFiles ==
  {[kind |-> "unreadable", exc |-> "EmptyDataError", msg |-> "No columns to parse from file",
    cells |-> <<>>],
   [kind |-> "unreadable", exc |-> "IsADirectoryError", msg |-> "[Errno 21] Is a directory",
    cells |-> <<>>]}

CsvFile(cells) == [kind |-> "csv", exc |-> "", msg |-> "", cells |-> cells]

\* The texts of a cell: integers, a decimal, a word, and the empty cell.
CellTexts == {"1", "2", "2.5", "abc", ""}

IsIntegerText(c) == c \in {"1", "2"}

IsNumberText(c) == c \in {"1", "2", "2.5"}

\* The number a cell text stands for, in halves.
HalvesOfText(c) == CASE c = "1" -> 2 [] c = "2" -> 4 [] c = "2.5" -> 5

\* pd.read_csv(filepath)
ReadCsv(file) == IF file.kind = "csv" THEN Returned(file.cells) ELSE Raised(file.exc) @@ [msg |-> file.msg]

\* The conversion followed by dropna(): the cells that are no number are dropped.
ToNumericList_dropna(cells) ==
  SelectSeq([i \in 1..Len(cells) |->
               IF IsNumberText(cells[i]) THEN PyFloat(HalvesOfText(cells[i])) ELSE FloatNaN],
            LAMBDA item : ~item.nan)

\* The conversion with errors='ignore': a column with a cell that is no number is
\* returned as it was read, its texts as texts and its empty cells as NaN.
ToNumericList_errors_ignore(cells) ==
  IF \A i \in 1..Len(cells) : IsIntegerText(cells[i])
  THEN [i \in 1..Len(cells) |-> PyInt(0, HalvesOfText(cells[i]) \div 2)]
  ELSE IF \A i \in 1..Len(cells) : IsNumberText(cells[i]) \/ cells[i] = ""
  THEN [i \in 1..Len(cells) |->
          IF IsNumberText(cells[i]) THEN PyFloat(HalvesOfText(cells[i])) ELSE FloatNaN]
  ELSE [i \in 1..Len(cells) |-> IF cells[i] = "" THEN FloatNaN ELSE PyStr(cells[i])]

\* pd.to_numeric(df.iloc[:, 0], errors='coerce').tolist(): a column of integers stays
\* one; otherwise every cell is a float, and NaN where it is no number.
ToNumericList(cells) ==
  IF \A i \in 1..Len(cells) : IsIntegerText(cells[i])
  THEN [i \in 1..Len(cells) |-> PyInt(0, HalvesOfText(cells[i]) \div 2)]
  ELSE [i \in 1..Len(cells) |->
          IF IsNumberText(cells[i]) THEN PyFloat(HalvesOfText(cells[i])) ELSE FloatNaN]

\* The body of the try statement.
AnalyzeCsvBody(filepath, file) ==
  LET df == ReadCsv(file)
      data == ToNumericList(df.ret)
      result == check_data_quality(data)
  IN IF df.raised # "none" THEN df
     ELSE IF result.raised # "none" THEN result
     ELSE Returned(result.ret @@ [source_file |-> filepath, total_rows |-> Len(df.ret)])

\* The except clauses with `except Exception` left out.
ExceptClauses_file_not_found_only(filepath, outcome) ==
  IF outcome.raised = "none" THEN outcome
  ELSE IF outcome.raised = "FileNotFoundError"
  THEN Returned([error |-> <<"File not found: ", filepath>>])
  ELSE outcome

\* except FileNotFoundError / except Exception as e
ExceptClauses(filepath, outcome) ==
  IF outcome.raised = "none" THEN outcome
  ELSE IF outcome.raised = "FileNotFoundError"
  THEN Returned([error |-> <<"File not found: ", filepath>>])
  ELSE Returned([error |-> <<"Failed to process file: ", outcome.msg>>])

analyze_csv_file(filepath, file) == ExceptClauses(filepath, AnalyzeCsvBody(filepath, file))

\* --------------------------------------------------- day_11: validate_schema

\* A DataFrame is the sequence of its columns; here a column is its name and its
\* dtype.  A schema (a dict, in insertion order) is a sequence of the same shape.
ColumnsOf(table) == {table[i].col : i \in 1..Len(table)}

DtypeOf(df, col) == (CHOOSE c \in {df[i] : i \in 1..Len(df)} : c.col = col).dtype

\* The loop over expected_schema.items(): df[col] raises KeyError for a column the
\* DataFrame does not have, before `col in df.columns` is looked at.
RECURSIVE SchemaLoop(_, _, _)
SchemaLoop(df, items, mismatch_list) ==
  IF items = <<>> THEN Returned(mismatch_list)
  ELSE LET col == Head(items).col
           expected_dtype == Head(items).dtype
       IN IF col \notin ColumnsOf(df) THEN Raised("KeyError")
          ELSE LET actual_dtype == DtypeOf(df, col)
               IN SchemaLoop(df, Tail(items),
                             IF col \in ColumnsOf(df) /\ actual_dtype # expected_dtype
                             THEN Append(mismatch_list, <<col, expected_dtype, actual_dtype>>)
                             ELSE mismatch_list)

validate_schema(df, expected_schema) ==
  LET schema_columns == ColumnsOf(expected_schema)
      df_columns == ColumnsOf(df)
      missing_columns == schema_columns \ df_columns
      extra_columns == df_columns \ schema_columns
      loop == SchemaLoop(df, expected_schema, <<>>)
      mismatch_list == loop.ret
      schema_match == ~(missing_columns # {} \/ extra_columns # {} \/ mismatch_list # <<>>)
  IN IF loop.raised # "none" THEN loop
     ELSE Returned([valid |-> schema_match,
                    missing_columns |-> missing_columns,
                    extra_columns |-> extra_columns,
                    type_mismatches |-> mismatch_list])

\* ------------------------------------------------------- day_08: crop_center

\* An image is the sequence of its rows, a row the sequence of its pixels, and a pixel
\* stands for all its channels (the crop takes every channel).
Min(a, b) == IF a < b THEN a ELSE b

Max(a, b) == IF a > b THEN a ELSE b

\* The 0-based indices of the Python slice [start:stop] of a sequence of length len:
\* a negative bound counts from the end, and both are clamped to 0..len.
PySlice(start, stop, len) ==
  LET clamp(x) == IF x < 0 THEN Max(x + len, 0) ELSE Min(x, len)
      first == clamp(start)
      last == clamp(stop) - 1
  IN [k \in 1..Max(last - first + 1, 0) |-> first + k - 1]

\* Python's // of integers: the floor of the quotient.
FloorDiv2(a) == IF a >= 0 THEN a \div 2 ELSE -((1 - a) \div 2)

crop_center(image, crop_height_arg, crop_width_arg) ==
  LET shape0 == Len(image)
      shape1 == Len(image[1])
      crop_height == Min(shape0, crop_height_arg)
      crop_width == Min(shape1, crop_width_arg)
      r1 == FloorDiv2(shape0 - crop_height)
      c1 == FloorDiv2(shape1 - crop_height)
      rows == PySlice(r1, r1 + crop_height, shape0)
      cols == PySlice(c1, c1 + crop_width, shape1)
  IN Returned([i \in 1..Len(rows) |-> [j \in 1..Len(cols) |-> image[rows[i] + 1][cols[j] + 1]]])

\* ------------------------------------------- day_12: process_transactions_*

\* A cell of a numeric column: a number, or NaN for a missing value.  Money is kept in
\* hundredths and a discount in percent, so that total * (1 - discount) is exact.
Number(v) == [nan |-> FALSE, v |-> v]

NaNValue == [nan |-> TRUE, v |-> 0]

Times(a, b) == IF a.nan \/ b.nan THEN NaNValue ELSE Number(a.v * b.v)

Plus(a, b) == IF a.nan \/ b.nan THEN NaNValue ELSE Number(a.v + b.v)

\* Comparisons with a NaN are False.
Greater(a, n) == ~a.nan /\ a.v > n

Less(a, n) == ~a.nan /\ a.v < n

AtMost(a, n) == ~a.nan /\ a.v <= n

AtLeast(a, n) == ~a.nan /\ a.v >= n

\* result['total'] * (1 - result['discount']), in hundredths.
FinalPrice(total, discount) == Times(total, Number(100 - discount))

\* calculate_discount(row) of the slow version.
calculate_discount(quantity) ==
  IF Greater(quantity, 10) THEN 15 ELSE IF Greater(quantity, 5) THEN 10 ELSE 5

\* categorize(row) of the slow version.
categorize(final_price) ==
  IF Less(final_price, 5000) THEN "small"
  ELSE IF Less(final_price, 20000) THEN "medium"
  ELSE "large"

\* The loop over result.iterrows(): customer_totals[customer_id] += row['final_price'].
RECURSIVE SlowCustomerTotals(_, _)
SlowCustomerTotals(rows, customer_totals) ==
  IF rows = <<>> THEN customer_totals
  ELSE LET row == Head(rows)
           started == IF row.customer_id \in DOMAIN customer_totals THEN customer_totals
                      ELSE customer_totals @@ (row.customer_id :> Number(0))
       IN SlowCustomerTotals(Tail(rows),
            [started EXCEPT ![row.customer_id] = Plus(@, row.final_price)])

process_transactions_slow(df) ==
  LET priced == [i \in 1..Len(df) |->
                   LET total == Times(df[i].price, df[i].quantity)
                       discount == calculate_discount(df[i].quantity)
                       final_price == FinalPrice(total, discount)
                   IN df[i] @@ [total |-> total, discount |-> discount,
                                final_price |-> final_price,
                                category |-> categorize(final_price)]]
      customer_totals == SlowCustomerTotals(priced, <<>>)
  IN Returned([i \in 1..Len(df) |->
                 priced[i] @@ [high_value |-> Greater(customer_totals[priced[i].customer_id], 100000)]])

\* np.select(conditions, choices, default): the choice of the first condition that
\* holds, and the default where none does.
RECURSIVE NpSelect(_, _, _)
NpSelect(conditions, choices, default) ==
  IF conditions = <<>> THEN default
  ELSE IF Head(conditions) THEN Head(choices)
  ELSE NpSelect(Tail(conditions), Tail(choices), default)

\* groupby('customer_id')['final_price'].sum(): the sum skips the NaN.
RECURSIVE GroupSum(_, _)
GroupSum(rows, customer_id) ==
  IF rows = <<>> THEN Number(0)
  ELSE LET row == Head(rows)
           rest == GroupSum(Tail(rows), customer_id)
       IN IF row.customer_id = customer_id /\ ~row.final_price.nan
          THEN Plus(row.final_price, rest) ELSE rest

process_transactions_fast(df) ==
  LET priced == [i \in 1..Len(df) |->
                   LET quantity == df[i].quantity
                       total == Times(df[i].price, quantity)
                       discount == NpSelect(<<Greater(quantity, 10), Greater(quantity, 5),
                                              AtMost(quantity, 5)>>, <<15, 10, 5>>, 0)
                       final_price == FinalPrice(total, discount)
                       category == NpSelect(<<Less(final_price, 5000),
                                              AtLeast(final_price, 5000) /\ Less(final_price, 20000),
                                              AtLeast(final_price, 20000)>>,
                                            <<"small", "medium", "large">>, "unknown")
                   IN df[i] @@ [total |-> total, discount |-> discount,
                                final_price |-> final_price, category |-> category]]
  IN Returned([i \in 1..Len(df) |->
                 priced[i] @@ [high_value |->
                   Greater(GroupSum(priced, priced[i].customer_id), 100000)]])

\* --------------------------------------------------- day_08: adjust_brightness

\* The integer element types of an image, with the least and the greatest value.
IntDtypes == {"uint8", "int16", "int32"}

DtypeMin(dtype) == CASE dtype = "uint8" -> 0 [] dtype = "int16" -> -32768 [] dtype = "int32" -> -2147483647 - 1

DtypeMax(dtype) == CASE dtype = "uint8" -> 255 [] dtype = "int16" -> 32767 [] dtype = "int32" -> 2147483647

\* An integer stored in the element type: it wraps around.  The products formed here
\* stay far inside 32 bits, where nothing wraps.
WrapTo(v, dtype) ==
  IF dtype = "int32" THEN v
  ELSE LET size == DtypeMax(dtype) - DtypeMin(dtype) + 1
       IN ((v - DtypeMin(dtype)) % size) + DtypeMin(dtype)

\* The element type of image * factor for a Python integer factor.  A factor the
\* image's type can hold leaves the type alone.  One it cannot hold widens the type
\* under NumPy 1 (value-based casting) and raises OverflowError under NumPy 2.
ProductDtype(dtype, factor, numpy) ==
  IF DtypeMin(dtype) <= factor /\ factor <= DtypeMax(dtype) THEN dtype
  ELSE IF numpy = 1 THEN "int16"
  ELSE "OverflowError"

\* np.clip(value, lo, hi)
NpClip(value, lo, hi) == Max(lo, Min(value, hi))

\* image * factor, for one pixel
ImageTimes(pixel, factor, dtype) == WrapTo(pixel * factor, dtype)

adjust_brightness(image, factor, numpy) ==
  LET dtype == ProductDtype(image.dtype, factor, numpy)
      brighened == [i \in 1..Len(image.pixels) |-> ImageTimes(image.pixels[i], factor, dtype)]
  IN IF dtype = "OverflowError" THEN Raised("OverflowError")
     ELSE Returned([dtype |-> "uint8",
                    pixels |-> [i \in 1..Len(brighened) |->
                                  WrapTo(NpClip(brighened[i], 0, 255), "uint8")]])

\* ---------------------------------------------------- day_11: detect_anomalies

\* The cells of a column that are no NaN, in ascending order.
SortedValues(cells) ==
  SortSeq([i \in 1..Len(SelectSeq(cells, LAMBDA c : ~c.nan)) |->
             SelectSeq(cells, LAMBDA c : ~c.nan)[i].v],
          LAMBDA a, b : a < b)

\* df[column].quantile(quarters / 4), times 4: the NaN are skipped and the value is
\* interpolated linearly between the two neighbours of position (n - 1) * q; NaN when
\* no value is left.
Quantile(cells, quarters) ==
  LET sorted == SortedValues(cells)
      position == (Len(sorted) - 1) * quarters
      below == position \div 4 + 1
      fraction == position % 4
  IN IF sorted = <<>> THEN NaNValue
     ELSE IF fraction = 0 THEN Number(4 * sorted[below])
     ELSE Number(4 * sorted[below] + fraction * (sorted[below + 1] - sorted[below]))

\* Q1 - 1.5 * IQR and Q3 + 1.5 * IQR with IQR = Q3 - Q1, times 8.
LowerBound(Q1, Q3) == IF Q1.nan THEN NaNValue ELSE Number(5 * Q1.v - 3 * Q3.v)

UpperBound(Q1, Q3) == IF Q1.nan THEN NaNValue ELSE Number(5 * Q3.v - 3 * Q1.v)

\* x < bound and x > bound for a bound kept times 8; False when either is NaN.
BelowBound(x, bound) == ~x.nan /\ ~bound.nan /\ 8 * x.v < bound.v

AboveBound(x, bound) == ~x.nan /\ ~bound.nan /\ 8 * x.v > bound.v

\* The row filter with the bounds counted among the outliers.
IsOutlierRow_inclusive(x, lower_bound, upper_bound) ==
  ~x.nan /\ ~lower_bound.nan /\ (8 * x.v <= lower_bound.v \/ 8 * x.v >= upper_bound.v)

\* (df[column] < lower_bound) | (df[column] > upper_bound)
IsOutlierRow(x, lower_bound, upper_bound) ==
  BelowBound(x, lower_bound) \/ AboveBound(x, upper_bound)

\* A DataFrame is its index labels and its rows; the column analysed is 'amount'.
detect_anomalies(df) ==
  LET cells == [i \in 1..Len(df.rows) |-> df.rows[i].amount]
      Q1 == Quantile(cells, 1)
      Q3 == Quantile(cells, 3)
      lower_bound == LowerBound(Q1, Q3)
      upper_bound == UpperBound(Q1, Q3)
      positions == SelectSeq([i \in 1..Len(cells) |-> i],
                             LAMBDA i : IsOutlierRow(cells[i], lower_bound, upper_bound))
  IN Returned([columns |-> df.columns \o <<"row_index", "value", "reason">>,
               index |-> [k \in 1..Len(positions) |-> df.index[positions[k]]],
               rows |-> [k \in 1..Len(positions) |->
                           LET row == df.rows[positions[k]]
                           IN row @@ [row_index |-> df.index[positions[k]],
                                      value |-> row.amount,
                                      reason |-> IF BelowBound(row.amount, lower_bound)
                                                 THEN "below lower bound"
                                                 ELSE "above upper bound"]]])

\* --------------------------------------------- day_11: validate_business_rules

\* A cell of a datetime64 column; NaT inside for a text that is no date.
TimestampItem(t) == [k |-> "Timestamp", t |-> t]

\* The integer of an int cell.
IntOf(item) == item.hi * UnixY2K + item.lo

\* A DataFrame is a function from its column names to the columns, all of one length.
\* The rows of df at the given positions: df[mask].
RowsAt(df, positions) ==
  [c \in DOMAIN df |-> [k \in 1..Len(positions) |-> df[c][positions[k]]]]

\* df['email'].str.contains('@', na=False) for the texts used here.
ContainsAt(item) == IsStr(item) /\ item.s \in {"alice@test.com", "bob@test.com"}

\* The test of a rule on one cell of its column; now is pd.Timestamp.now().
Violates(rule, x, now) ==
  CASE rule = "negative_amounts" -> IntOf(x) < 0
    [] rule = "invalid_ages" -> IntOf(x) < 1 \/ IntOf(x) > 120
    [] rule = "invalid_emails" -> ~ContainsAt(x)
    [] rule = "future_dates" -> x.t # NaT /\ VLess(now, x.t)

\* pd.to_datetime(df['signup_date'], errors='coerce')
ToDatetimeColumn(column) == [i \in 1..Len(column) |-> TimestampItem(ToDatetime(column[i]))]

\* df['signup_date'] = pd.to_datetime(df['signup_date'], errors='coerce'): the column
\* of the caller's DataFrame is replaced.
AssignSignupDate(df) == [df EXCEPT !["signup_date"] = ToDatetimeColumn(@)]

\* One rule: nothing when its column is missing, else the violating rows under the
\* rule's name.
RuleReport(df, rule, column, now) ==
  IF column \notin DOMAIN df THEN <<>>
  ELSE rule :> RowsAt(df, SelectSeq([i \in 1..Len(df[column]) |-> i],
                                    LAMBDA i : Violates(rule, df[column][i], now)))

\* The flag with the dates left out: a future date does not clear it.
StillValid_without_dates(violations) ==
  \A rule \in DOMAIN violations \ {"future_dates"} : violations[rule] = 0

\* result['valid'] after the four rules: no rule has cleared it.
StillValid(violations) == \A rule \in DOMAIN violations : violations[rule] = 0

\* now is the reading of pd.Timestamp.now().  The result comes with df, the caller's
\* DataFrame as the call leaves it.
validate_business_rules(df, now) ==
  LET dated == IF "signup_date" \in DOMAIN df THEN AssignSignupDate(df) ELSE df
      violation_details ==
        RuleReport(df, "negative_amounts", "amount", now)
        @@ RuleReport(df, "invalid_ages", "age", now)
        @@ RuleReport(df, "invalid_emails", "email", now)
        @@ RuleReport(dated, "future_dates", "signup_date", now)
      violations == [rule \in DOMAIN violation_details |->
                       Len(violation_details[rule]["customer_id"])]
  IN Returned([valid |-> StillValid(violations),
               violations |-> violations,
               violation_details |-> violation_details])
     @@ [df |-> dated]

\* ------------------------------------------------------- day_10: analysis

\* A table is the sequence of its rows.  The day of 2024 a date text stands for.
DayOf2024(s) ==
  CASE s = "2024-01-01" -> 1 [] s = "2024-01-02" -> 2 [] s = "2024-02-01" -> 32

\* Time is counted in quarters of a day; pd.to_datetime of a date text is its midnight.
QuartersOfDate(item) == 4 * DayOf2024(item.s)

\* The rows of one customer: a group of groupby('customer_id').
GroupOf(rows, customer_id) == SelectSeq(rows, LAMBDA row : row.customer_id = customer_id)

\* The keys of groupby('customer_id').
CustomerIds(rows) == {rows[i].customer_id : i \in 1..Len(rows)}

\* ['amount'].sum() of a group
RECURSIVE SumAmount(_)
SumAmount(rows) == IF rows = <<>> THEN 0 ELSE Head(rows).amount + SumAmount(Tail(rows))

\* pd.merge(customers_df, transactions_df, on='customer_id', how='inner'): every
\* customer row with every transaction row of the same customer_id, in the order of
\* the customer rows.
RECURSIVE Merge(_, _)
Merge(customers_df, transactions_df) ==
  IF customers_df = <<>> THEN <<>>
  ELSE LET customer == Head(customers_df)
           matching == GroupOf(transactions_df, customer.customer_id)
       IN [i \in 1..Len(matching) |-> customer @@ matching[i]]
          \o Merge(Tail(customers_df), transactions_df)

\* ['transaction_date'].min() and .max() of a group, in quarters of a day
RECURSIVE EarliestDate(_)
EarliestDate(rows) ==
  IF Len(rows) = 1 THEN QuartersOfDate(Head(rows).transaction_date)
  ELSE Min(QuartersOfDate(Head(rows).transaction_date), EarliestDate(Tail(rows)))

RECURSIVE LatestDate(_)
LatestDate(rows) ==
  IF Len(rows) = 1 THEN QuartersOfDate(Head(rows).transaction_date)
  ELSE Max(QuartersOfDate(Head(rows).transaction_date), LatestDate(Tail(rows)))

\* (now - date).dt.days: the whole days of the difference, rounded down.
DaysSince(now, date) == (now - date) \div 4

\* now_first and now_last are the two readings of pd.Timestamp.now(), in quarters of a
\* day.
calculate_customer_lifetime_value(customers_df, transactions_df, now_first, now_last) ==
  LET merged == Merge(customers_df, transactions_df)
  IN Returned([customer_id \in CustomerIds(merged) |->
       LET group == GroupOf(merged, customer_id)
       IN [name |-> Head(group).name,
           country |-> Head(group).country,
           segment |-> Head(group).customer_segment,
           total_spent |-> SumAmount(group),
           days_since_first |-> DaysSince(now_first, EarliestDate(group)),
           days_since_last |-> DaysSince(now_last, LatestDate(group))]])

\* groupby(['customer_id', 'product_category']).size() of one customer, and idxmax:
\* the first category in sorted order among those bought most often.
MostPurchased(group, customer_id) ==
  LET categories == {group[i].product_category : i \in 1..Len(group)}
      size(c) == Len(SelectSeq(group, LAMBDA row : row.product_category = c))
      most == {c \in categories : \A d \in categories : size(d) <= size(c)}
      sorted == <<"clothing", "electronics", "home">>
  IN <<customer_id, sorted[CHOOSE i \in 1..Len(sorted) :
                             /\ sorted[i] \in most
                             /\ \A j \in 1..(i - 1) : sorted[j] \notin most]>>

get_customer_summary(transactions_df) ==
  Returned([customer_id \in CustomerIds(transactions_df) |->
    LET group == GroupOf(transactions_df, customer_id)
    IN [total_spent |-> SumAmount(group),
        num_transactions |-> Len(group),
        avg_transaction |-> [sum |-> SumAmount(group), n |-> Len(group)],
        most_purchased_category |-> MostPurchased(group, customer_id)]])

\* .dt.to_period('M') of a date
PeriodItem(item) ==
  [k |-> "Period", s |-> IF DayOf2024(item.s) <= 31 THEN "2024-01" ELSE "2024-02"]

\* transactions_df['transaction_date'] = pd.to_datetime(...) and
\* transactions_df['year_month'] = ...: both columns are set in the caller's DataFrame.
WithYearMonth(transactions_df) ==
  [i \in 1..Len(transactions_df) |->
     [transactions_df[i] EXCEPT
        !.transaction_date = TimestampItem(<<EpochDay2024 - 1 + DayOf2024(@.s), 0, 0>>)]
     @@ [year_month |-> PeriodItem(transactions_df[i].transaction_date)]]

\* The result comes with df, the caller's DataFrame as the call leaves it.
get_monthly_trends(transactions_df) ==
  LET dated == WithYearMonth(transactions_df)
      months == {dated[i].year_month : i \in 1..Len(dated)}
  IN Returned([year_month \in months |->
       LET group == SelectSeq(dated, LAMBDA row : row.year_month = year_month)
       IN [sum |-> SumAmount(group), count |-> Len(group),
           mean |-> [sum |-> SumAmount(group), n |-> Len(group)]]])
     @@ [df |-> dated]

\* ------------------------------------------------- day_09: clean_customer_data

\* A DataFrame is the sequence of its column names and, under each name, the cells.
\* series.str.contains(r'[\w.]+@\w+\..+', regex=True, na=False) for the texts used
\* here: "a@b" has no dot after the @, and None counts as no match.
EmailIsValid(item) == IsStr(item) /\ item.s \in {"john@email.com"}

\* series.str.strip().str.lower() for the texts used here
StripLower(text) ==
  CASE text = "Electronics" -> "electronics" [] text = " home " -> "home" [] text = "" -> ""

\* The cleaned column: what the function of each column returns.
CleanedColumn(name, series) ==
  CASE name = "email" ->
         [i \in 1..Len(series) |-> IF EmailIsValid(series[i]) THEN series[i] ELSE FloatNaN]
    [] name = "category" ->
         [i \in 1..Len(series) |->
            IF ~IsStr(series[i]) \/ StripLower(series[i].s) = "" THEN FloatNaN
            ELSE PyStr(StripLower(series[i].s))]
    [] name = "age" ->
         \* series.mask((series > 120) | (series < 1)): with a value masked the integer
         \* column becomes a float column
         IF \E i \in 1..Len(series) : IntOf(series[i]) > 120 \/ IntOf(series[i]) < 1
         THEN [i \in 1..Len(series) |->
                 IF IntOf(series[i]) > 120 \/ IntOf(series[i]) < 1 THEN FloatNaN
                 ELSE PyFloat(2 * IntOf(series[i]))]
         ELSE series
    [] name = "signup_date" -> ToDatetimeColumn(series)
    [] name = "purchase_amount" ->
         [i \in 1..Len(series) |-> IF series[i].lo2 < 0 THEN FloatNaN ELSE series[i]]
    [] name = "country" ->
         [i \in 1..Len(series) |-> IF IsNone(series[i]) THEN PyStr("Unknown") ELSE series[i]]

\* The six assignments in their order: df_clean[name] = clean(df_clean[name]) raises
\* KeyError at the first column df_clean does not have.
RECURSIVE CleanColumns(_, _)
CleanColumns(df_clean, names) ==
  IF names = <<>> THEN [frame |-> df_clean, raised |-> "none"]
  ELSE IF Head(names) \notin DOMAIN df_clean.cells THEN [frame |-> df_clean, raised |-> "KeyError"]
  ELSE CleanColumns([df_clean EXCEPT !.cells[Head(names)] = CleanedColumn(Head(names), @)],
                    Tail(names))

\* The assignment df_clean = df, which cleans the caller's DataFrame itself.
CopyOf_same_object(df) == [frame |-> df, shared |-> TRUE]

\* df.copy(): another object with the same cells.
CopyOf(df) == [frame |-> df, shared |-> FALSE]

\* The result comes with df, the caller's DataFrame as the call leaves it.
clean_customer_data(df) ==
  LET df_clean == CopyOf(df)
      cleaned == CleanColumns(df_clean.frame, <<"email", "category", "age", "signup_date",
                                                "purchase_amount", "country">>)
  IN (IF cleaned.raised = "none" THEN Returned(cleaned.frame) ELSE Raised(cleaned.raised))
     @@ [df |-> IF df_clean.shared THEN cleaned.frame ELSE df]

\* ---------------------------------------------------- day_09: clean_age_values

\* An age in halves of a year: the cells are integers, or floats with a NaN.
AgeHalves(item) == IF IsInt(item) THEN 2 * IntOf(item) ELSE item.lo2

\* The mask with the bounds 1 and 120 masked as well.
AgeIsMasked_inclusive(item) ==
  ~PdIsna(item) /\ (AgeHalves(item) >= 240 \/ AgeHalves(item) <= 2)

\* (series > 120) | (series < 1): False for a NaN
AgeIsMasked(item) == ~PdIsna(item) /\ (AgeHalves(item) > 240 \/ AgeHalves(item) < 2)

\* series.mask(...): a new series with NaN where the mask holds; an integer series
\* with a masked value becomes a float series.  The result comes with series, the
\* caller's series as the call leaves it.
clean_age_values(series) ==
  Returned(IF \E i \in 1..Len(series) : AgeIsMasked(series[i])
           THEN [i \in 1..Len(series) |->
                   IF AgeIsMasked(series[i]) THEN FloatNaN
                   ELSE IF IsInt(series[i]) THEN PyFloat(AgeHalves(series[i]))
                   ELSE series[i]]
           ELSE series)
  @@ [series |-> series]

\* ----------------------------------------------- day_08: rotate_90, add_border

\* An image of H x W x C is the sequence of its rows, a row the sequence of its
\* pixels, a pixel the sequence of its channels.
\* np.transpose(image, (1, 0, 2)): rows and columns change places.
NpTranspose(image) ==
  [i \in 1..Len(image[1]) |-> [j \in 1..Len(image) |-> image[j][i]]]

\* np.flip(array, axis=0): the rows in reverse order
NpFlipRows(array) == [i \in 1..Len(array) |-> array[Len(array) + 1 - i]]

\* np.flip(array, axis=1): every row in reverse order
NpFlipColumns(array) ==
  [i \in 1..Len(array) |-> [j \in 1..Len(array[i]) |-> array[i][Len(array[i]) + 1 - j]]]

\* The quarter turn the other way round: the transposed image flipped along axis 1.
rotate_90_clockwise(image) == Returned(NpFlipColumns(NpTranspose(image)))

rotate_90(image) == Returned(NpFlipRows(NpTranspose(image)))

\* The border above and below only.
add_border_rows_only(image, border_width, border_color) ==
  LET channels == Len(image[1][1])
  IN Returned([i \in 1..(Len(image) + 2 * border_width) |->
                 [j \in 1..Len(image[1]) |->
                    IF border_width < i /\ i <= border_width + Len(image)
                    THEN image[i - border_width][j]
                    ELSE [k \in 1..channels |-> border_color]]])

\* np.pad(image, ((b, b), (b, b), (0, 0)), mode='constant', constant_values=color)
add_border(image, border_width, border_color) ==
  LET channels == Len(image[1][1])
  IN Returned([i \in 1..(Len(image) + 2 * border_width) |->
                 [j \in 1..(Len(image[1]) + 2 * border_width) |->
                    IF /\ border_width < i /\ i <= border_width + Len(image)
                       /\ border_width < j /\ j <= border_width + Len(image[1])
                    THEN image[i - border_width][j - border_width]
                    ELSE [k \in 1..channels |-> border_color]]])

\* ------------------------------------------------------- day_02: the report

\* The key under which an analyzer stores a field of its result.  The results above
\* name their fields with identifiers; the dictionaries of the code have these keys.
PythonKey(analysis, field) ==
  CASE field = "data_points" -> "data points"
    [] field = "valid_data_points" -> "valid data points"
    [] field = "total_values" -> IF analysis = "temporal" THEN "total values" ELSE "total_values"
    [] field = "total_valid_values" -> "total valid values"
    [] field = "invalid_values" -> "invalid values"
    [] field = "repeated_times" -> "repeated times"
    [] field = "detected_frequency" -> "detected frequency"
    [] field = "frequency_distribution" -> "frequency distribution"
    [] field = "unique_count" -> "unique count"
    [] OTHER -> field

\* The dictionary an analyzer returns, under the keys of the code.
AsDict(ret) ==
  LET analysis == IF "analysis" \in DOMAIN ret THEN ret.analysis ELSE "numerical"
      keys == {PythonKey(analysis, field) : field \in DOMAIN ret}
  IN [key \in keys |-> ret[CHOOSE field \in DOMAIN ret : PythonKey(analysis, field) = key]]

\* A line of the report: its fixed text, and the value an f-string puts after it
\* with the format it is given.
Line(text) == [text |-> text, fmt |-> "", value |-> <<>>]

Field(text, fmt, value) == [text |-> text, fmt |-> fmt, value |-> <<value>>]

\* data_type.upper()
Upper(data_type) ==
  CASE data_type = "unknown" -> "UNKNOWN"
    [] data_type = "numeric" -> "NUMERIC"
    [] data_type = "numerical" -> "NUMERICAL"
    [] data_type = "categorical" -> "CATEGORICAL"
    [] data_type = "temporal" -> "TEMPORAL"

\* The lines of sorted(freq_dist.items(), key=lambda x: x[1], reverse=True): the
\* counts descend.
RECURSIVE FrequencyLines(_, _)
FrequencyLines(freq_dist, keys) ==
  IF keys = {} THEN <<>>
  ELSE LET category == CHOOSE key \in keys : \A other \in keys : freq_dist[other] <= freq_dist[key]
       IN <<Field("  ", "{category}: {count}", <<category, freq_dist[category]>>)>>
          \o FrequencyLines(freq_dist, keys \ {category})

generate_report(analysis_results) ==
  LET d == analysis_results
      has(key) == key \in DOMAIN d
      data_type == IF has("data_type") THEN d["data_type"] ELSE "unknown"
      header == <<Line("Data Quality Report"), Line("=" \o " * 50"),
                  Field("Data Type: ", "", Upper(data_type)), Line("")>>
      total == IF has("total values") /\ d["total values"] # 0 THEN d["total values"]
               ELSE IF has("total_values") THEN d["total_values"] ELSE NoneItem
      totals == IF has("total values") \/ has("total_values")
                THEN <<Field("Total Values: ", "", total)>> ELSE <<>>
      valid == IF has("valid data points")
               THEN <<Field("Valid Data Points: ", "", d["valid data points"])>>
               ELSE IF has("valid_categories")
               THEN <<Field("Valid Categories: ", "", d["valid_categories"])>>
               ELSE IF has("total valid values")
               THEN <<Field("Valid Values: ", "", d["total valid values"])>>
               ELSE <<>>
      numeric == <<Line("Statistical Summary:"), Line("-" \o " * 30"),
                   Field("  Mean: ", ".2f", d["mean"]), Field("  Std Dev: ", ".2f", d["std"]),
                   Field("  Min: ", ".2f", d["min"]), Field("  Max: ", ".2f", d["max"]), Line("")>>
                 \o (IF has("outliers") /\ d["outliers"] # <<>>
                     THEN <<Field("Outliers Detected: ", "", Len(d["outliers"])),
                            Field("  Values: ", "", d["outliers"])>>
                     ELSE <<Line("Outliers Detected: None")>>)
      get(key) == IF has(key) THEN d[key] ELSE "N/A"
      categorical == <<Line("Categorical Summary:"), Line("-" \o " * 30"),
                       Field("  Unique Categories: ", "", get("unique count")),
                       Field("  Most Common: ", "", get("most common")),
                       Field("  Least Common: ", "", get("least common"))>>
                     \o (IF has("frequency distribution")
                         THEN <<Line(""), Line("Frequency Distribution:")>>
                              \o FrequencyLines(d["frequency distribution"],
                                                DOMAIN d["frequency distribution"])
                         ELSE <<>>)
      temporal == <<Line("Temporal Summary:"), Line("-" \o " * 30"),
                    Field("  Earliest: ", "", get("earliest")),
                    Field("  Latest: ", "", get("latest"))>>
                  \o (IF has("detected_frequency")
                      THEN <<Field("  Detected Frequency: ", "", d["detected_frequency"])>>
                      ELSE <<>>)
                  \o (IF has("pattern") THEN <<Field("  Pattern: ", "", d["pattern"])>> ELSE <<>>)
                  \o (IF has("gaps_detected")
                      THEN <<Field("  Gaps Detected: ", "", d["gaps_detected"])>>
                           \o (IF d["gaps_detected"] > 0 /\ has("gap_after_dates")
                               THEN <<Field("  Gap Locations: ", "", d["gap_after_dates"])>>
                               ELSE <<>>)
                      ELSE IF has("gaps") THEN <<Field("  Gaps: ", "", d["gaps"])>> ELSE <<>>)
      section == CASE data_type = "numeric" -> numeric
                   [] data_type = "categorical" -> categorical
                   [] data_type = "temporal" -> temporal
                   [] OTHER -> <<>>
      count(key, text) == IF has(key) /\ d[key] > 0 THEN <<Field(text, "", d[key])>> ELSE <<>>
      issues == count("missing_none", "  None values: ")
                \o count("missing_empty_string", "  Empty strings: ")
                \o count("invalid_type_count", "  Invalid types: ")
                \o count("invalid values", "  Invalid values: ")
                \o (IF has("excluded_non_numeric") /\ d["excluded_non_numeric"] # <<>>
                    THEN <<Field("  Non-numeric values: ", "", d["excluded_non_numeric"])>>
                    ELSE <<>>)
      warnings == IF has("warnings") /\ d["warnings"] # <<>>
                  THEN <<Line(""), Line("Warnings:"), Line("-" \o " * 30")>>
                       \o [i \in 1..Len(d["warnings"]) |-> Field("  (warning sign) ", "", d["warnings"][i])]
                  ELSE <<>>
  IN IF has("error")
     THEN Returned(<<Line("Data Quality Report"), Line("=" \o " * 50"),
                     Field("ERROR: ", "", d["error"]), Line("")>>)
     \* f"{'N/A':.2f}": the format of a number given a text
     ELSE IF data_type = "numeric" /\ ~({"mean", "std", "min", "max"} \subseteq DOMAIN d)
     THEN Raised("ValueError")
     ELSE Returned(header \o totals \o valid \o <<Line("")>> \o section
                   \o <<Line(""), Line("Data Quality Issues:"), Line("-" \o " * 30")>>
                   \o (IF issues # <<>> THEN issues ELSE <<Line("  No quality issues detected")>>)
                   \o warnings \o <<Line(""), Line("=" \o " * 50")>>)

\* ------------------------------------------------------------- the calls

\* What the analyzers are called with: short lists of every kind of item, and longer
\* lists of a few numbers (an outlier needs six values).
MixedItems == {NoneItem, FloatNaN, PyInt(0, 1), PyInt(1, 1), PyFloat(3), PyFloat(4), PyStr("abc")}

NumItems == {NoneItem, PyInt(0, 0), PyInt(0, 5)}

QualityInputs == SeqsUpTo(MixedItems, MaxMixedLen) \cup SeqsUpTo(NumItems, MaxNumLen)

NoCall == [raised |-> "none"]

Idle == op = "idle" /\ arg = <<>> /\ res = NoCall

\* The caller has the result; the next call starts from scratch.
Return == op # "idle" /\ op' = "idle" /\ arg' = <<>> /\ res' = NoCall

InitAnalyzers == Idle

CallCheckDataQuality ==
  /\ op = "idle"
  /\ \E data \in QualityInputs :
    /\ op' = "check_data_quality"
    /\ arg' = data
    /\ res' = check_data_quality(data)

\* Lists of categories: strings, the empty string, numbers and missing values.
CategoricalItems == {NoneItem, FloatNaN, PyInt(0, 1), PyFloat(2), PyFloat(3), PyStr(""),
                     PyStr("a"), PyStr("b")}

CategoricalInputs == SeqsUpTo(CategoricalItems, MaxMixedLen)

CallCheckCategoricalQuality ==
  /\ op = "idle"
  /\ \E data \in CategoricalInputs :
    /\ op' = "check_categorical_quality"
    /\ arg' = data
    /\ res' = check_categorical_quality(data)

\* Lists of dates: date strings, strings that are no date, and missing values.
TemporalItems == {NoneItem, PyStr("not-a-date"), PyStr("2024-01-01"), PyStr("2024-01-02"),
                  PyStr("2024-01-03"), PyStr("2024-01-05")}

TemporalInputs == SeqsUpTo(TemporalItems, MaxDatesLen)

CallCheckTemporalQuality ==
  /\ op = "idle"
  /\ \E data \in TemporalInputs :
    /\ op' = "check_temporal_quality"
    /\ arg' = data
    /\ res' = check_temporal_quality(data)

NextAnalyzers ==
  \/ CallCheckDataQuality
  \/ CallCheckCategoricalQuality
  \/ CallCheckTemporalQuality
  \/ Return

SpecAnalyzers == InitAnalyzers /\ [][NextAnalyzers]_vars

\* Lists of anything: missing values, small and large integers, floats, dates, words.
DispatchItems == {NoneItem, FloatNaN, PyInt(0, 1), PyInt(1, 0), PyInt(1, 1), PyFloat(3),
                  PyFloat(4), PyStr("2024-01-01"), PyStr("2024-01-02"), PyStr("apple")}

DispatchInputs == SeqsUpTo(DispatchItems, MaxMixedLen)

CallCheckData ==
  /\ op = "idle"
  /\ \E data \in DispatchInputs :
    /\ op' = "check_data"
    /\ arg' = data
    /\ res' = check_data(data)

InitDispatch == Idle

NextDispatch == CallCheckData \/ Return

SpecDispatch == InitDispatch /\ [][NextDispatch]_vars

Paths == {"data.csv", "nonexistent.csv"}

Files == {MissingFile} \cup UnreadableFiles \cup {CsvFile(cells) : cells \in SeqsUpTo(CellTexts, MaxRows)}

CallAnalyzeCsvFile ==
  /\ op = "idle"
  /\ \E filepath \in Paths, file \in Files :
    /\ op' = "analyze_csv_file"
    /\ arg' = [filepath |-> filepath, file |-> file]
    /\ res' = analyze_csv_file(filepath, file)

InitCsv == Idle

NextCsv == CallAnalyzeCsvFile \/ Return

SpecCsv == InitCsv /\ [][NextCsv]_vars

ColumnNames == {"customer_id", "name", "email"}

Dtypes == {"int64", "object"}

\* The tables and the schemas over these columns: no name twice.
Tables ==
  {t \in SeqsUpTo([col : ColumnNames, dtype : Dtypes], Cardinality(ColumnNames)) :
     \A i, j \in 1..Len(t) : t[i].col = t[j].col => i = j}

CallValidateSchema ==
  /\ op = "idle"
  /\ \E df \in Tables, expected_schema \in Tables :
    /\ op' = "validate_schema"
    /\ arg' = [df |-> df, expected_schema |-> expected_schema]
    /\ res' = validate_schema(df, expected_schema)

InitSchema == Idle

NextSchema == CallValidateSchema \/ Return

SpecSchema == InitSchema /\ [][NextSchema]_vars

\* The test's image: the pixel in row i, column j (from 0) is 10*i + j.
TestImage(height, width) == [i \in 1..height |-> [j \in 1..width |-> 10 * (i - 1) + (j - 1)]]

CallCropCenter ==
  /\ op = "idle"
  /\ \E height \in 1..MaxDim, width \in 1..MaxDim,
        crop_height \in 1..(MaxDim + 1), crop_width \in 1..(MaxDim + 1) :
    /\ op' = "crop_center"
    /\ arg' = [image |-> TestImage(height, width), crop_height |-> crop_height,
               crop_width |-> crop_width]
    /\ res' = crop_center(TestImage(height, width), crop_height, crop_width)

InitImage == Idle

NextImage == CallCropCenter \/ Return

SpecImage == InitImage /\ [][NextImage]_vars

\* Transactions: a price, a quantity around the discount steps or missing, a customer.
TransactionRows ==
  [price : {Number(5), Number(100)},
   quantity : {NaNValue, Number(5), Number(6), Number(10), Number(11)},
   customer_id : {1, 2}]

\* The tables of one row or more.
TransactionTables == SeqsUpTo(TransactionRows, MaxRows) \ {<<>>}

CallProcessTransactionsSlow ==
  /\ op = "idle"
  /\ \E df \in TransactionTables :
    /\ op' = "process_transactions_slow"
    /\ arg' = df
    /\ res' = process_transactions_slow(df)

CallProcessTransactionsFast ==
  /\ op = "idle"
  /\ \E df \in TransactionTables :
    /\ op' = "process_transactions_fast"
    /\ arg' = df
    /\ res' = process_transactions_fast(df)

InitTransactions == Idle

NextTransactions == CallProcessTransactionsSlow \/ CallProcessTransactionsFast \/ Return

SpecTransactions == InitTransactions /\ [][NextTransactions]_vars

\* Pixels of each element type: the ends of its range and values between.
PixelsOf(dtype) ==
  CASE dtype = "uint8" -> {0, 10, 128, 200, 255}
    [] dtype = "int16" -> {-1, 10, 200, 20000}
    [] dtype = "int32" -> {-1, 0, 10, 200}

BrightnessImages ==
  UNION {[dtype : {dtype}, pixels : SeqsUpTo(PixelsOf(dtype), MaxPixels) \ {<<>>}] : dtype \in IntDtypes}

Factors == {-1, 0, 1, 2, 3}

NumpyReleases == {1, 2}

CallAdjustBrightness ==
  /\ op = "idle"
  /\ \E image \in BrightnessImages, factor \in Factors, numpy \in NumpyReleases :
    /\ op' = "adjust_brightness"
    /\ arg' = [image |-> image, factor |-> factor, numpy |-> numpy]
    /\ res' = adjust_brightness(image, factor, numpy)

InitBrightness == Idle

NextBrightness == CallAdjustBrightness \/ Return

SpecBrightness == InitBrightness /\ [][NextBrightness]_vars

\* Amounts: missing, a cluster, and one far away on each side.
Amounts == {NaNValue, Number(-40), Number(0), Number(1), Number(40)}

\* The tables of amounts, the customers numbered along the rows, with the default
\* index or one that starts at 10.
AnomalyTables ==
  {[columns |-> <<"customer_id", "amount">>,
    index |-> [i \in 1..Len(amounts) |-> start + i - 1],
    rows |-> [i \in 1..Len(amounts) |-> [customer_id |-> i, amount |-> amounts[i]]]] :
     amounts \in SeqsUpTo(Amounts, MaxAmounts), start \in {0, 10}}

CallDetectAnomalies ==
  /\ op = "idle"
  /\ \E df \in AnomalyTables :
    /\ op' = "detect_anomalies"
    /\ arg' = df
    /\ res' = detect_anomalies(df)

InitAnomalies == Idle

NextAnomalies == CallDetectAnomalies \/ Return

SpecAnomalies == InitAnomalies /\ [][NextAnomalies]_vars

\* The columns the rules look at, with cells on both sides of each rule.
RuleCells(column) ==
  CASE column = "amount" -> {PyInt(0, -50), PyInt(0, 100)}
    [] column = "age" -> {PyInt(0, 0), PyInt(0, 25), PyInt(0, 150)}
    [] column = "email" -> {PyStr("alice@test.com"), PyStr("nope"), NoneItem}
    [] column = "signup_date" -> {PyStr("2024-01-01"), PyStr("2024-01-05"), PyStr("not a date")}

\* The columns of n cells; only the empty one when the DataFrame lacks the column.
ColumnsFor(column, present, n) ==
  IF column \in present THEN {c \in SeqsUpTo(RuleCells(column), n) : Len(c) = n} ELSE {<<>>}

\* Readings of the clock: just after midnight of 3 and of 6 January 2024.
Nows == {<<EpochDay2024 + 2, 0, 1>>, <<EpochDay2024 + 5, 0, 1>>}

CallValidateBusinessRules ==
  /\ op = "idle"
  /\ \E present \in SUBSET {"amount", "age", "email", "signup_date"}, n \in 0..MaxCustomers, now \in Nows :
       \E amount \in ColumnsFor("amount", present, n), age \in ColumnsFor("age", present, n),
          email \in ColumnsFor("email", present, n),
          signup_date \in ColumnsFor("signup_date", present, n) :
         LET all == [customer_id |-> [i \in 1..n |-> PyInt(0, i)], amount |-> amount,
                     age |-> age, email |-> email, signup_date |-> signup_date]
             df == [c \in present \cup {"customer_id"} |-> all[c]]
         IN /\ op' = "validate_business_rules"
            /\ arg' = [df |-> df, now |-> now]
            /\ res' = validate_business_rules(df, now)

InitRules == Idle

NextRules == CallValidateBusinessRules \/ Return

SpecRules == InitRules /\ [][NextRules]_vars

\* Customers: an id can be there twice, with another name.
CustomerRows ==
  [customer_id : {1, 2}, name : {"Alice", "Bob"}, country : {"USA"},
   customer_segment : {"Premium"}]

\* Transactions of the customers 1 and 2.
TransactionRecords ==
  [transaction_id : {101}, customer_id : {1, 2}, product_category : {"clothing", "electronics"},
   amount : {50, 100}, transaction_date : {PyStr("2024-01-01"), PyStr("2024-01-02")}]

\* Readings of the clock, in quarters of a day since the start of 2024: 18:00 of
\* 3 January and 06:00 of 4 January.
ClockReadings == {15, 17}

CallCalculateCustomerLifetimeValue ==
  /\ op = "idle"
  /\ \E customers_df \in SeqsUpTo(CustomerRows, MaxCustomers),
        transactions_df \in SeqsUpTo({t \in TransactionRecords : t.product_category = "clothing"},
                                     MaxCustomers),
        now_first \in ClockReadings, now_last \in ClockReadings :
       /\ now_first <= now_last
       /\ op' = "calculate_customer_lifetime_value"
       /\ arg' = [customers_df |-> customers_df, transactions_df |-> transactions_df,
                  now_first |-> now_first, now_last |-> now_last]
       /\ res' = calculate_customer_lifetime_value(customers_df, transactions_df,
                                                   now_first, now_last)

CallGetCustomerSummary ==
  /\ op = "idle"
  /\ \E transactions_df \in SeqsUpTo(TransactionRecords, MaxCustomers) :
       /\ op' = "get_customer_summary"
       /\ arg' = transactions_df
       /\ res' = get_customer_summary(transactions_df)

InitAnalysis == Idle

NextAnalysis == CallCalculateCustomerLifetimeValue \/ CallGetCustomerSummary \/ Return

SpecAnalysis == InitAnalysis /\ [][NextAnalysis]_vars

\* Transactions of two months.
MonthlyRecords ==
  [transaction_id : {101}, customer_id : {1}, product_category : {"clothing"},
   amount : {50, 100},
   transaction_date : {PyStr("2024-01-01"), PyStr("2024-01-02"), PyStr("2024-02-01")}]

CallGetMonthlyTrends ==
  /\ op = "idle"
  /\ \E transactions_df \in SeqsUpTo(MonthlyRecords, MaxRows) :
       /\ op' = "get_monthly_trends"
       /\ arg' = transactions_df
       /\ res' = get_monthly_trends(transactions_df)

\* The two functions that are handed a DataFrame of the caller's.
InitFrames == Idle

NextFrames == CallValidateBusinessRules \/ CallGetMonthlyTrends \/ Return

SpecFrames == InitFrames /\ [][NextFrames]_vars

\* Rows to clean, as a half of texts (email, category, country) and a half of
\* numbers and dates (age, signup_date, purchase_amount).
TextHalves ==
  {[email |-> PyStr("john@email.com"), category |-> PyStr("Electronics"), country |-> PyStr("USA")],
   [email |-> PyStr("invalid"), category |-> PyStr(" home "), country |-> NoneItem],
   [email |-> NoneItem, category |-> PyStr(""), country |-> PyStr("UK")],
   [email |-> PyStr("a@b"), category |-> NoneItem, country |-> NoneItem]}

NumberHalves ==
  {[age |-> PyInt(0, 25), signup_date |-> PyStr("2024-01-01"), purchase_amount |-> PyFloat(200)],
   [age |-> PyInt(0, 150), signup_date |-> PyStr("not a date"), purchase_amount |-> PyFloat(-100)],
   [age |-> PyInt(0, 0), signup_date |-> PyStr("2024-01-02"), purchase_amount |-> PyFloat(0)]}

\* The orders of the columns: the one of the tests, another one, one without the
\* columns no rule applies to, and one that lacks 'country'.
ColumnOrders ==
  {<<"customer_id", "name", "age", "email", "signup_date", "purchase_amount", "category", "country">>,
   <<"country", "category", "name", "purchase_amount", "signup_date", "email", "age", "customer_id">>,
   <<"age", "email", "signup_date", "purchase_amount", "category", "country">>,
   <<"customer_id", "name", "age", "email", "signup_date", "purchase_amount", "category">>}

CallCleanCustomerData ==
  /\ op = "idle"
  /\ \E columns \in ColumnOrders, texts \in SeqsUpTo(TextHalves, MaxCleanRows),
        numbers \in SeqsUpTo(NumberHalves, MaxCleanRows) :
       /\ Len(texts) = Len(numbers)
       /\ LET all == [name \in {"customer_id", "name", "age", "email", "signup_date",
                                "purchase_amount", "category", "country"} |->
                        [i \in 1..Len(texts) |->
                           CASE name = "customer_id" -> PyInt(0, i)
                             [] name = "name" -> PyStr("John")
                             [] name \in {"email", "category", "country"} -> texts[i][name]
                             [] OTHER -> numbers[i][name]]]
              df == [columns |-> columns,
                     cells |-> [name \in {columns[k] : k \in 1..Len(columns)} |-> all[name]]]
          IN /\ op' = "clean_customer_data"
             /\ arg' = df
             /\ res' = clean_customer_data(df)

InitClean == Idle

NextClean == CallCleanCustomerData \/ Return

SpecClean == InitClean /\ [][NextClean]_vars

\* Series of ages: integers around the bounds 1 and 120, or floats with a NaN.
AgeSeries ==
  SeqsUpTo({PyInt(0, -1), PyInt(0, 0), PyInt(0, 1), PyInt(0, 25), PyInt(0, 120), PyInt(0, 121)},
           MaxAges)
  \cup SeqsUpTo({FloatNaN, PyFloat(1), PyFloat(2), PyFloat(51), PyFloat(240), PyFloat(241)},
                MaxAges)

CallCleanAgeValues ==
  /\ op = "idle"
  /\ \E series \in AgeSeries :
       /\ op' = "clean_age_values"
       /\ arg' = series
       /\ res' = clean_age_values(series)

InitAges == Idle

NextAges == CallCleanAgeValues \/ Return

SpecAges == InitAges /\ [][NextAges]_vars

\* An image in which every channel of every pixel has its own value, from 1 to 255.
ColourImage(height, width, channels) ==
  [i \in 1..height |-> [j \in 1..width |-> [k \in 1..channels |-> 50 * (i - 1) + 10 * (j - 1) + k]]]

ColourImages ==
  {ColourImage(height, width, channels) :
     height \in 1..MaxDim, width \in 1..MaxDim, channels \in {1, 3}}

CallRotate90 ==
  /\ op = "idle"
  /\ \E image \in ColourImages :
       /\ op' = "rotate_90"
       /\ arg' = image
       /\ res' = rotate_90(image)

CallAddBorder ==
  /\ op = "idle"
  /\ \E image \in ColourImages, border_width \in 0..MaxBorder, border_color \in {0, 255} :
       /\ op' = "add_border"
       /\ arg' = [image |-> image, border_width |-> border_width, border_color |-> border_color]
       /\ res' = add_border(image, border_width, border_color)

InitTransforms == Idle

NextTransforms == CallRotate90 \/ CallAddBorder \/ Return

SpecTransforms == InitTransforms /\ [][NextTransforms]_vars

\* Lists with an item that is itself a list, of one element or of more.
NestedItems ==
  {PyStr("a"), PyInt(0, 4), NoneItem, PyList(<<PyInt(0, 1)>>), PyList(<<NoneItem>>),
   PyList(<<PyInt(0, 1), PyInt(0, 2)>>), PyList(<<NoneItem, NoneItem>>),
   PyList(<<PyInt(0, 1), PyInt(0, 2), PyInt(0, 3)>>)}

CallCheckDataQualityOfLists ==
  /\ op = "idle"
  /\ \E data \in SeqsUpTo(NestedItems, MaxNestedLen) :
       /\ op' = "check_data_quality"
       /\ arg' = data
       /\ res' = check_data_quality(data)

InitNested == Idle

NextNested == CallCheckDataQualityOfLists \/ Return

SpecNested == InitNested /\ [][NextNested]_vars

\* The lists whose analyses are reported.
ReportNumbers == SeqsUpTo({NoneItem, PyInt(0, 1), PyInt(0, 3), PyStr("abc")}, MaxReportLen)

ReportCategories == SeqsUpTo({NoneItem, PyFloat(3), PyStr("a"), PyStr("b")}, MaxReportLen)

ReportDates ==
  SeqsUpTo({NoneItem, PyStr("2024-01-01"), PyStr("2024-01-02"), PyStr("2024-01-05")},
           MaxReportLen + 1)

\* generate_report(check_data_quality(data))
CallGenerateReportOfNumbers ==
  /\ op = "idle"
  /\ \E data \in ReportNumbers :
       /\ op' = "generate_report"
       /\ arg' = AsDict(check_data_quality(data).ret)
       /\ res' = generate_report(arg')

\* generate_report(check_categorical_quality(data))
CallGenerateReportOfCategories ==
  /\ op = "idle"
  /\ \E data \in ReportCategories :
       /\ op' = "generate_report"
       /\ arg' = AsDict(check_categorical_quality(data).ret)
       /\ res' = generate_report(arg')

\* generate_report(check_temporal_quality(data)), when the analyzer returns
CallGenerateReportOfDates ==
  /\ op = "idle"
  /\ \E data \in ReportDates :
       /\ check_temporal_quality(data).raised = "none"
       /\ op' = "generate_report"
       /\ arg' = AsDict(check_temporal_quality(data).ret)
       /\ res' = generate_report(arg')

\* generate_report of a result to which the caller has added the key 'data_type'.
CallGenerateReportTyped ==
  /\ op = "idle"
  /\ \E data_type \in {"numeric", "categorical", "temporal"} :
       \E result \in {check_data_quality(data) : data \in ReportNumbers}
                     \cup {check_categorical_quality(data) : data \in ReportCategories} :
         /\ op' = "generate_report"
         /\ arg' = AsDict(result.ret) @@ [data_type |-> data_type]
         /\ res' = generate_report(arg')

InitReport == Idle

NextReport ==
  \/ CallGenerateReportOfNumbers
  \/ CallGenerateReportOfCategories
  \/ CallGenerateReportOfDates
  \/ CallGenerateReportTyped
  \/ Return

SpecReport == InitReport /\ [][NextReport]_vars

\* The indices check_data inspects in a list of N items, for the lengths at which it
\* samples: a list of one item has sample size 0 and the empty list returns before.
CallSampleIndices ==
  /\ op = "idle"
  /\ \E N \in 2..MaxSampled :
       /\ op' = "sample_indices"
       /\ arg' = N
       /\ res' = Returned(SampleIndices(N))

InitSampling == Idle

NextSampling == CallSampleIndices \/ Return

SpecSampling == InitSampling /\ [][NextSampling]_vars

\* ---------------------------------------------------------------- claims

C7_BoundaryReached ==
  /\ op = "check_data_quality"
  /\ arg = <<PyInt(0, 0), PyInt(0, 0), PyInt(0, 0), PyInt(0, 0), PyInt(0, 5)>>

\* The days of the valid dates of a list of date strings, in input order.
DaysOf(data) ==
  LET dates == SelectSeq(data, LAMBDA item : item.k = "str" /\ item.s \in DateStrings)
  IN [i \in 1..Len(dates) |-> DayOfJanuary(dates[i].s)]

\* C8: check_temporal_quality takes the differences between consecutive valid dates.
\* If they are pairwise distinct (none or one included) it reports pattern 'irregular',
\* gaps 'N/A - no regular pattern' and no gap.  Otherwise gaps_detected is the number
\* of differences greater than 1.5 times the most common one, which is 0 for an evenly
\* spaced sequence.
C8_Gaps ==
  (op = "check_temporal_quality" /\ DaysOf(arg) # <<>>) =>
    LET days == DaysOf(arg)
        diffs == [i \in 1..(Len(days) - 1) |-> days[i + 1] - days[i]]
        values == {diffs[i] : i \in 1..Len(diffs)}
        count(d) == Cardinality({i \in 1..Len(diffs) : diffs[i] = d})
        modes == {d \in values : \A e \in values : count(e) <= count(d)}
        gaps(m) == Cardinality({i \in 1..Len(diffs) : 2 * diffs[i] > 3 * m})
    IN /\ res.raised = "none"
       /\ IF Cardinality(values) = Len(diffs)
          THEN /\ res.ret.pattern = "irregular"
               /\ res.ret.gaps = "N/A - no regular pattern"
               /\ res.ret.gaps_detected = 0
          ELSE /\ \E m \in modes : res.ret.gaps_detected = gaps(m)
               /\ Cardinality(values) = 1 => res.ret.gaps_detected = 0

\* C8, where it does hold: the dates ascend and no missing entry precedes a gap.
C8_GapsOfAscendingDates ==
  (/\ op = "check_temporal_quality"
   /\ DaysOf(arg) # <<>>
   /\ \A i \in 1..(Len(DaysOf(arg)) - 1) : DaysOf(arg)[i] <= DaysOf(arg)[i + 1]
   /\ Len(DaysOf(arg)) = Len(arg)) => C8_Gaps

\* C8 without its last sentence: what is left fails only by the KeyError.
C8_GapsCountOnly ==
  (op = "check_temporal_quality" /\ DaysOf(arg) # <<>> /\ res.raised = "none") =>
    LET days == DaysOf(arg)
        diffs == [i \in 1..(Len(days) - 1) |-> days[i + 1] - days[i]]
        values == {diffs[i] : i \in 1..Len(diffs)}
        count(d) == Cardinality({i \in 1..Len(diffs) : diffs[i] = d})
        modes == {d \in values : \A e \in values : count(e) <= count(d)}
        gaps(m) == Cardinality({i \in 1..Len(diffs) : 2 * diffs[i] > 3 * m})
    IN IF Cardinality(values) = Len(diffs)
       THEN /\ res.ret.pattern = "irregular"
            /\ res.ret.gaps = "N/A - no regular pattern"
            /\ res.ret.gaps_detected = 0
       ELSE \E m \in modes : res.ret.gaps_detected = gaps(m)

\* The evenly spaced, descending dates 3, 2, 1 January are reported with two gaps.
C8_DescendingHasNoGaps ==
  (op = "check_temporal_quality"
   /\ arg = <<PyStr("2024-01-03"), PyStr("2024-01-02"), PyStr("2024-01-01")>>) =>
     res.ret.gaps_detected = 0

C9_NumericReached ==
  op = "check_data_quality" /\ Len(arg) >= 2 /\ "error" \in DOMAIN res.ret

C9_TemporalReached ==
  op = "check_temporal_quality" /\ Len(arg) >= 2 /\ res.raised = "none" /\ "error" \in DOMAIN res.ret

\* C1: for every non-empty list of None, numbers and strings, of any length from 1
\* on, check_data does not raise and returns the dictionary of exactly one of the
\* three analyzers.
C1_NeverRaises ==
  (op = "check_data" /\ arg # <<>>) =>
    /\ res.raised = "none"
    /\ Cardinality({a \in {"check_temporal_quality", "check_data_quality",
                            "check_categorical_quality"} :
                      /\ Analyze(a, arg).raised = "none"
                      /\ Analyze(a, arg).ret = res.ret}) = 1

\* C1 for the lists of two items or more.
C1_NeverRaisesFromTwoItems == Len(arg) >= 2 => C1_NeverRaises

\* C2: over the sampled items that are not None or NaN, with temp_count, num_count and
\* cat_count the numbers of temporal, numeric and categorical candidates, check_data
\* calls the temporal analyzer iff temp_count >= num_count and temp_count >= cat_count,
\* otherwise the numeric one iff num_count >= cat_count, otherwise the categorical
\* one; exactly one analyzer is called for every non-empty input.
C2_Routing ==
  (op = "check_data" /\ arg # <<>>) =>
    LET sampled == {i + 1 : i \in SampleIndices(Len(arg))}
        counted == {i \in sampled : arg[i].k # "None" /\ ~(arg[i].k = "float" /\ arg[i].nan)}
        date(item) == item.k = "str" /\ item.s \in DateStrings
        stamp(item) == item.k = "int" /\ (item.hi > 1 \/ (item.hi = 1 /\ item.lo > 0))
        temp_count == Cardinality({i \in counted : date(arg[i]) \/ stamp(arg[i])})
        num_count == Cardinality({i \in counted : arg[i].k \in {"int", "float"}})
        cat_count == Cardinality({i \in counted :
                       arg[i].k \in {"str", "int"} \/ (arg[i].k = "float" /\ arg[i].lo2 % 2 = 0)})
    IN /\ Len(res.called) = 1
       /\ res.called[1] = "check_temporal_quality"
            <=> (temp_count >= num_count /\ temp_count >= cat_count)
       /\ res.called[1] = "check_data_quality"
            <=> (~(temp_count >= num_count /\ temp_count >= cat_count) /\ num_count >= cat_count)
       /\ res.called[1] = "check_categorical_quality"
            <=> (~(temp_count >= num_count /\ temp_count >= cat_count) /\ num_count < cat_count)

\* C2 for the lists of two items or more.
C2_RoutingFromTwoItems == Len(arg) >= 2 => C2_Routing

\* C10: analyze_csv_file never lets an exception reach its caller: for a path where
\* no file is it returns 'File not found: <path>' as 'error', and for any other
\* failure a dictionary whose 'error' begins with 'Failed to process file:'.
C10_NoException ==
  op = "analyze_csv_file" =>
    /\ res.raised = "none"
    /\ arg.file.kind = "missing" => res.ret = [error |-> <<"File not found: ", arg.filepath>>]
    /\ arg.file.kind = "unreadable" =>
         /\ "error" \in DOMAIN res.ret
         /\ Head(res.ret.error) = "Failed to process file: "

\* A file that is there and cannot be read.
C10_Witness ==
  /\ op = "analyze_csv_file"
  /\ arg.file.kind = "unreadable"
  /\ res.raised = "none"

C10_MissingReached ==
  op = "analyze_csv_file" /\ arg.file.kind = "missing" /\ res.raised = "none"

\* C3: when the schema names columns the DataFrame does not have, validate_schema
\* returns (it does not raise) a result with valid = False and every such column in
\* missing_columns; the DataFrame's columns that are not in the schema are in
\* extra_columns; and type_mismatches holds (column, expected dtype, actual dtype)
\* exactly for the columns in both whose dtype differs.
C3_SchemaResult ==
  op = "validate_schema" =>
    LET dfcols == {arg.df[i].col : i \in 1..Len(arg.df)}
        expected == {arg.expected_schema[i].col : i \in 1..Len(arg.expected_schema)}
        dtype(table, col) == (CHOOSE c \in {table[i] : i \in 1..Len(table)} : c.col = col).dtype
        differing == {col \in dfcols \cap expected : dtype(arg.df, col) # dtype(arg.expected_schema, col)}
    IN /\ res.raised = "none"
       /\ (expected \ dfcols # {}) => (res.ret.valid = FALSE /\ expected \ dfcols \subseteq res.ret.missing_columns)
       /\ dfcols \ expected \subseteq res.ret.extra_columns
       /\ {res.ret.type_mismatches[i] : i \in 1..Len(res.ret.type_mismatches)}
             = {<<col, dtype(arg.expected_schema, col), dtype(arg.df, col)>> : col \in differing}
       /\ Len(res.ret.type_mismatches) = Cardinality(differing)

\* C3 for the calls whose schema names no column the DataFrame lacks.
C3_SchemaResultNothingMissing ==
  (op = "validate_schema"
   /\ {arg.expected_schema[i].col : i \in 1..Len(arg.expected_schema)}
         \subseteq {arg.df[i].col : i \in 1..Len(arg.df)}) => C3_SchemaResult

\* C5: crop_center(image, crop_height, crop_width) of an H x W image returns the
\* centred window: with ch = min(H, crop_height) and cw = min(W, crop_width) the result
\* has ch rows of cw pixels and its pixel (i, j) is image[(H - ch) // 2 + i,
\* (W - cw) // 2 + j], whatever the two crop sizes and the image's shape.
C5_CentredWindow ==
  op = "crop_center" =>
    LET H == Len(arg.image)
        W == Len(arg.image[1])
        ch == IF H < arg.crop_height THEN H ELSE arg.crop_height
        cw == IF W < arg.crop_width THEN W ELSE arg.crop_width
    IN /\ res.raised = "none"
       /\ Len(res.ret) = ch
       /\ \A i \in 1..ch :
            /\ Len(res.ret[i]) = cw
            /\ \A j \in 1..cw :
                 res.ret[i][j] = arg.image[(H - ch) \div 2 + i][(W - cw) \div 2 + j]

\* C5 for a square crop that fits into the image.
C5_CentredSquareWindow ==
  (/\ op = "crop_center"
   /\ arg.crop_height = arg.crop_width
   /\ arg.crop_height <= Len(arg.image)
   /\ arg.crop_height <= Len(arg.image[1])) => C5_CentredWindow

\* C4: for every table with the columns price, quantity and customer_id,
\* process_transactions_fast returns the table process_transactions_slow returns: in
\* every row the same total, discount (0.15 above 10 items, 0.10 above 5, else 0.05),
\* final_price, category and high_value.
C4_FastEqualsSlow ==
  op = "process_transactions_fast" =>
    /\ res.raised = "none"
    /\ res.ret = process_transactions_slow(arg).ret
    /\ \A i \in 1..Len(arg) :
         res.ret[i].discount
           = IF ~arg[i].quantity.nan /\ arg[i].quantity.v > 10 THEN 15
             ELSE IF ~arg[i].quantity.nan /\ arg[i].quantity.v > 5 THEN 10 ELSE 5

\* C4 for the tables without a missing value.
C4_FastEqualsSlowNoNaN ==
  (op = "process_transactions_fast" /\ \A i \in 1..Len(arg) : ~arg[i].quantity.nan)
    => C4_FastEqualsSlow

\* A customer whose rows sum to more than 1000 is flagged.
C4_HighValueReached ==
  /\ op = "process_transactions_fast"
  /\ \E i \in 1..Len(arg) : res.ret[i].high_value
  /\ \E i \in 1..Len(arg) : ~res.ret[i].high_value

\* C11: for every readable CSV file the result of analyze_csv_file has 'source_file'
\* equal to the path, 'total_rows' equal to the number of data rows, 'data points'
\* equal to 'total_rows' and 'valid data points' equal to the number of cells of the
\* first column that parse as numbers; the other cells are left out of the statistics
\* (the mean is the mean of the numbers) and cause no error.
C11_CsvResult ==
  (op = "analyze_csv_file" /\ arg.file.kind = "csv") =>
    LET cells == arg.file.cells
        numbers == SelectSeq(cells, IsNumberText)
    IN /\ res.raised = "none"
       /\ res.ret.source_file = arg.filepath
       /\ res.ret.total_rows = Len(cells)
       /\ res.ret.data_points = res.ret.total_rows
       /\ res.ret.valid_data_points = Len(numbers)
       /\ numbers # <<>> =>
            /\ "error" \notin DOMAIN res.ret
            /\ res.ret.mean.n = Len(numbers)
            /\ res.ret.mean.sum[3] = VSum([i \in 1..Len(numbers) |-> <<0, 0, HalvesOfText(numbers[i])>>])[3]

\* A file with a number and a cell that is no number.
C11_Witness ==
  /\ op = "analyze_csv_file"
  /\ arg.file.kind = "csv"
  /\ \E i \in 1..Len(arg.file.cells) : arg.file.cells[i] = "abc"
  /\ res.raised = "none"
  /\ res.ret.valid_data_points > 0
  /\ res.ret.valid_data_points < res.ret.total_rows

\* A file with a header and no data row.
C11_NoRowsReached ==
  /\ op = "analyze_csv_file"
  /\ arg.file.kind = "csv"
  /\ res.raised = "none"
  /\ res.ret.total_rows = 0

\* C12: for every non-empty list whose items are all integers, or integers mixed with
\* None, check_data routes the data to the numeric analyzer: the result has
\* 'analysis' = 'numerical' and contains 'mean' and 'std'.
C12_IntegersAreNumeric ==
  (/\ op = "check_data"
   /\ \A i \in 1..Len(arg) : IsInt(arg[i]) \/ IsNone(arg[i])
   /\ \E i \in 1..Len(arg) : IsInt(arg[i])) =>
    /\ res.raised = "none"
    /\ res.called = <<"check_data_quality">>
    /\ {"analysis", "mean", "std"} \subseteq DOMAIN res.ret
    /\ res.ret.analysis = "numerical"

\* C12 for the lists of three items or more (every item is sampled) whose integers
\* are no later than the Unix time of 1 January 2000.
C12_SmallIntegersAreNumeric ==
  (/\ Len(arg) >= 3
   /\ \A i \in 1..Len(arg) : IsInt(arg[i]) => ~AfterY2K(arg[i])) => C12_IntegersAreNumeric

\* A list of integers with a None, sent to the numeric analyzer.
C12_NumericReached ==
  /\ op = "check_data"
  /\ \E i \in 1..Len(arg) : IsInt(arg[i])
  /\ \E i \in 1..Len(arg) : IsNone(arg[i])
  /\ \A i \in 1..Len(arg) : IsInt(arg[i]) \/ IsNone(arg[i])
  /\ res.raised = "none"
  /\ res.called = <<"check_data_quality">>

\* C13: check_data returns {'error': 'empty dataset'} for the empty list, and for every
\* non-empty list of None and NaN items only it returns a dictionary with an 'error'
\* key.
C13_NothingToAnalyze ==
  op = "check_data" =>
    /\ arg = <<>> => (res.raised = "none" /\ res.ret = [error |-> <<"empty dataset">>])
    /\ (arg # <<>> /\ \A i \in 1..Len(arg) : Skipped(arg[i])) =>
         (res.raised = "none" /\ "error" \in DOMAIN res.ret)

\* C13 for the lists that do not have exactly one item.
C13_NothingToAnalyzeButOneItem == Len(arg) # 1 => C13_NothingToAnalyze

\* A list of None and NaN for which an analyzer reports that there is no valid data.
C13_NoValidDataReached ==
  /\ op = "check_data"
  /\ \E i \in 1..Len(arg) : IsNone(arg[i])
  /\ \E i \in 1..Len(arg) : IsFloat(arg[i])
  /\ \A i \in 1..Len(arg) : Skipped(arg[i])
  /\ res.raised = "none"
  /\ res.ret = [error |-> <<"no valid data">>]

\* C14: adjust_brightness(image, factor) returns an 8-bit image in which every pixel
\* is the input pixel times factor, clamped to [0, 255] (above 255 gives 255, below 0
\* gives 0), for every integer input type, unsigned 8-bit images times an integer
\* factor included.
C14_Clamped ==
  op = "adjust_brightness" =>
    /\ res.raised = "none"
    /\ res.ret.dtype = "uint8"
    /\ Len(res.ret.pixels) = Len(arg.image.pixels)
    /\ \A i \in 1..Len(arg.image.pixels) :
         LET product == arg.image.pixels[i] * arg.factor
         IN res.ret.pixels[i] = IF product > 255 THEN 255 ELSE IF product < 0 THEN 0 ELSE product

\* C14 for the 32-bit images.
C14_ClampedInt32 == (op = "adjust_brightness" /\ arg.image.dtype = "int32") => C14_Clamped

\* A 32-bit image with a pixel clamped at each end.
C14_BothEndsReached ==
  /\ op = "adjust_brightness"
  /\ arg.image.dtype = "int32"
  /\ res.raised = "none"
  /\ \E i \in 1..Len(arg.image.pixels) : arg.image.pixels[i] * arg.factor > 255 /\ res.ret.pixels[i] = 255
  /\ \E i \in 1..Len(arg.image.pixels) : arg.image.pixels[i] * arg.factor < 0 /\ res.ret.pixels[i] = 0

\* C15: detect_anomalies(df, column) returns exactly the rows whose value is below
\* Q1 - 1.5 * IQR or above Q3 + 1.5 * IQR, in the order of df; each keeps the original
\* columns and gets row_index = its index in df, value = its column value and reason
\* 'below lower bound' or 'above upper bound'; without outliers the result is empty
\* and still has the three added columns.
C15_Outliers ==
  op = "detect_anomalies" =>
    LET cells == [i \in 1..Len(arg.rows) |-> arg.rows[i].amount]
        Q1 == Quantile(cells, 1)
        Q3 == Quantile(cells, 3)
        IQR == Q3.v - Q1.v
        below(i) == ~cells[i].nan /\ ~Q1.nan /\ 8 * cells[i].v < 2 * Q1.v - 3 * IQR
        above(i) == ~cells[i].nan /\ ~Q1.nan /\ 8 * cells[i].v > 2 * Q3.v + 3 * IQR
        outlying == {i \in 1..Len(cells) : below(i) \/ above(i)}
        out == res.ret
    IN /\ res.raised = "none"
       /\ {"row_index", "value", "reason"} \subseteq {out.columns[k] : k \in 1..Len(out.columns)}
       /\ \A k \in 1..Len(arg.columns) : out.columns[k] = arg.columns[k]
       /\ Len(out.rows) = Cardinality(outlying)
       /\ \A i \in outlying :
            \E k \in 1..Len(out.rows) :
              /\ out.rows[k].row_index = arg.index[i]
              /\ out.rows[k].value = cells[i]
              /\ out.rows[k].amount = arg.rows[i].amount
              /\ out.rows[k].customer_id = arg.rows[i].customer_id
              /\ out.rows[k].reason = IF below(i) THEN "below lower bound" ELSE "above upper bound"
       /\ \A k, l \in 1..Len(out.rows) : k < l => out.rows[k].row_index < out.rows[l].row_index

\* An outlier on each side.
C15_Witness ==
  /\ op = "detect_anomalies"
  /\ res.raised = "none"
  /\ \E k \in 1..Len(res.ret.rows) : res.ret.rows[k].reason = "below lower bound"
  /\ \E k \in 1..Len(res.ret.rows) : res.ret.rows[k].reason = "above upper bound"
  /\ Len(res.ret.rows) < Len(arg.rows)

\* No outlier among four values or more.
C15_NoOutlierReached ==
  /\ op = "detect_anomalies"
  /\ Len(arg.rows) >= 4
  /\ res.raised = "none"
  /\ res.ret.rows = <<>>

\* An interpolated quartile.
C15_InterpolatedReached ==
  /\ op = "detect_anomalies"
  /\ Len(arg.rows) = 4
  /\ \A i \in 1..4 : ~arg.rows[i].amount.nan
  /\ Quantile([i \in 1..4 |-> arg.rows[i].amount], 1).v % 4 # 0
  /\ res.ret.rows # <<>>

\* C16: in every result of validate_business_rules a rule name is a key of
\* 'violations' iff the rule's column is in the DataFrame; violations[rule] is the
\* number of rows of violation_details[rule]; and valid is True iff every reported
\* count is 0.
C16_RuleReports ==
  (op = "validate_business_rules" /\ res.raised = "none") =>
    LET rules == {<<"negative_amounts", "amount">>, <<"invalid_ages", "age">>,
                  <<"invalid_emails", "email">>, <<"future_dates", "signup_date">>}
        out == res.ret
    IN /\ \A r \in rules : r[1] \in DOMAIN out.violations <=> r[2] \in DOMAIN arg.df
       /\ DOMAIN out.violations \subseteq {r[1] : r \in rules}
       /\ DOMAIN out.violation_details = DOMAIN out.violations
       /\ \A rule \in DOMAIN out.violations :
            \A c \in DOMAIN out.violation_details[rule] :
              Len(out.violation_details[rule][c]) = out.violations[rule]
       /\ out.valid <=> \A rule \in DOMAIN out.violations : out.violations[rule] = 0

\* A DataFrame with a column missing, a rule broken and a rule kept.
C16_Witness ==
  /\ op = "validate_business_rules"
  /\ res.raised = "none"
  /\ "age" \notin DOMAIN arg.df
  /\ \E rule \in DOMAIN res.ret.violations : res.ret.violations[rule] > 0
  /\ \E rule \in DOMAIN res.ret.violations : res.ret.violations[rule] = 0

\* A signup date after the reading of the clock.
C16_FutureDateReached ==
  /\ op = "validate_business_rules"
  /\ res.raised = "none"
  /\ "future_dates" \in DOMAIN res.ret.violations
  /\ res.ret.violations["future_dates"] = 1
  /\ Len(arg.df["customer_id"]) = 2

\* All rules kept.
C16_ValidReached ==
  /\ op = "validate_business_rules"
  /\ res.raised = "none"
  /\ DOMAIN arg.df = {"customer_id", "amount", "age", "email", "signup_date"}
  /\ Len(arg.df["customer_id"]) = 2
  /\ res.ret.valid

\* C17: for every customer in the result of calculate_customer_lifetime_value,
\* days_since_first >= days_since_last, whatever the moment of the call and however
\* much time passes between the two readings of the clock.
C17_FirstNotAfterLast ==
  (op = "calculate_customer_lifetime_value" /\ res.raised = "none") =>
    \A customer_id \in DOMAIN res.ret :
      res.ret[customer_id].days_since_first >= res.ret[customer_id].days_since_last

\* C17 when both readings of the clock give the same time.
C17_FirstNotAfterLastOneReading ==
  (op = "calculate_customer_lifetime_value" /\ arg.now_first = arg.now_last)
    => C17_FirstNotAfterLast

\* A customer whose first purchase is a day before the last.
C17_DayApartReached ==
  /\ op = "calculate_customer_lifetime_value"
  /\ res.raised = "none"
  /\ \E customer_id \in DOMAIN res.ret :
       res.ret[customer_id].days_since_first > res.ret[customer_id].days_since_last

\* C18: for every customers table and transactions table and every customer in both,
\* the total_spent of calculate_customer_lifetime_value is the sum of the customer's
\* transaction amounts, the total_spent of get_customer_summary for the transactions.
C18_TotalSpent ==
  (op = "calculate_customer_lifetime_value" /\ res.raised = "none") =>
    LET summary == get_customer_summary(arg.transactions_df).ret
        both == {arg.customers_df[i].customer_id : i \in 1..Len(arg.customers_df)}
                  \cap {arg.transactions_df[i].customer_id : i \in 1..Len(arg.transactions_df)}
    IN /\ DOMAIN res.ret = both
       /\ \A customer_id \in both :
            /\ res.ret[customer_id].total_spent = summary[customer_id].total_spent
            /\ res.ret[customer_id].total_spent
                 = SumAmount(SelectSeq(arg.transactions_df,
                                       LAMBDA t : t.customer_id = customer_id))

\* C18 for the customers tables without a customer_id twice.
C18_TotalSpentUniqueCustomers ==
  (/\ op = "calculate_customer_lifetime_value"
   /\ \A i, j \in 1..Len(arg.customers_df) :
        arg.customers_df[i].customer_id = arg.customers_df[j].customer_id => i = j)
    => C18_TotalSpent

\* A customer with two transactions.
C18_TwoTransactionsReached ==
  /\ op = "calculate_customer_lifetime_value"
  /\ res.raised = "none"
  /\ Len(arg.customers_df) = 1
  /\ \E customer_id \in DOMAIN res.ret : res.ret[customer_id].total_spent = 150

\* C19: validate_business_rules and get_monthly_trends return their result without
\* modifying the DataFrame the caller passed: no column is added and no column is
\* converted to another type.
C19_ArgumentUntouched ==
  /\ op = "validate_business_rules" => res.df = arg.df
  /\ op = "get_monthly_trends" => res.df = arg

\* C19 for validate_business_rules on a DataFrame without the column signup_date.
C19_UntouchedWithoutSignupDate ==
  (op = "validate_business_rules" /\ "signup_date" \notin DOMAIN arg.df) => res.df = arg.df

\* Months with their sums, from a table of two months.
C19_TwoMonthsReached ==
  /\ op = "get_monthly_trends"
  /\ res.raised = "none"
  /\ Cardinality(DOMAIN res.ret) = 2
  /\ \E month \in DOMAIN res.ret : res.ret[month].count = 2

\* C20: clean_customer_data does not modify the DataFrame it is given; its result has
\* the same row count and the same columns in the same order as the input; and the
\* columns no cleaning rule applies to (customer_id, name) are those of the input.
C20_CopyCleaned ==
  op = "clean_customer_data" =>
    /\ res.df = arg
    /\ res.raised = "none" =>
         /\ res.ret.columns = arg.columns
         /\ DOMAIN res.ret.cells = DOMAIN arg.cells
         /\ \A name \in DOMAIN arg.cells : Len(res.ret.cells[name]) = Len(arg.cells[name])
         /\ \A name \in DOMAIN arg.cells \cap {"customer_id", "name"} :
              res.ret.cells[name] = arg.cells[name]

\* Two rows of which the cleaning changes a cell, next to customer_id and name.
C20_Witness ==
  /\ op = "clean_customer_data"
  /\ res.raised = "none"
  /\ "customer_id" \in DOMAIN arg.cells
  /\ Len(arg.cells["customer_id"]) = 2
  /\ res.ret.cells["email"] # arg.cells["email"]
  /\ res.ret.cells["age"] # arg.cells["age"]
  /\ res.ret.cells["country"] # arg.cells["country"]

\* A DataFrame that lacks a column to clean.
C20_KeyErrorReached == op = "clean_customer_data" /\ res.raised = "KeyError"

\* C21: clean_age_values returns a series of the same length in which every age from
\* 1 to 120, the bounds included, is unchanged, every age below 1 or above 120 is NaN,
\* and a NaN stays NaN; the input series is not modified.
C21_AgesCleaned ==
  op = "clean_age_values" =>
    /\ res.raised = "none"
    /\ res.series = arg
    /\ Len(res.ret) = Len(arg)
    /\ \A i \in 1..Len(arg) :
         IF PdIsna(arg[i]) THEN PdIsna(res.ret[i])
         ELSE IF 2 <= AgeHalves(arg[i]) /\ AgeHalves(arg[i]) <= 240
         THEN ~PdIsna(res.ret[i]) /\ AgeHalves(res.ret[i]) = AgeHalves(arg[i])
         ELSE PdIsna(res.ret[i])

\* Both bounds kept next to an age that is masked.
C21_Witness ==
  /\ op = "clean_age_values"
  /\ res.raised = "none"
  /\ \E i \in 1..Len(arg) : AgeHalves(arg[i]) = 2 /\ ~PdIsna(res.ret[i])
  /\ \E i \in 1..Len(arg) : AgeHalves(arg[i]) = 240 /\ ~PdIsna(res.ret[i])
  /\ \E i \in 1..Len(arg) : ~PdIsna(arg[i]) /\ PdIsna(res.ret[i])

\* A NaN that stays one.
C21_NaNReached ==
  /\ op = "clean_age_values"
  /\ \E i \in 1..Len(arg) : PdIsna(arg[i]) /\ PdIsna(res.ret[i])
  /\ \E i \in 1..Len(arg) : ~PdIsna(res.ret[i])

\* C22: add_border(image, b, color) on an H x W x C image returns an image of
\* (H + 2b) x (W + 2b) x C whose pixel (b + i, b + j, k) is image[i, j, k] and whose
\* every other pixel is color in every channel; with b = 0 the result is the input.
C22_Bordered ==
  op = "add_border" =>
    LET image == arg.image
        b == arg.border_width
        H == Len(image)
        W == Len(image[1])
        C == Len(image[1][1])
        out == res.ret
    IN /\ res.raised = "none"
       /\ Len(out) = H + 2 * b
       /\ \A i \in 1..Len(out) :
            /\ Len(out[i]) = W + 2 * b
            /\ \A j \in 1..Len(out[i]) :
                 /\ Len(out[i][j]) = C
                 /\ \A k \in 1..C :
                      out[i][j][k] = IF i - b \in 1..H /\ j - b \in 1..W
                                     THEN image[i - b][j - b][k] ELSE arg.border_color
       /\ b = 0 => out = image

\* A border of two pixels around an image that is not square.
C22_Witness ==
  /\ op = "add_border"
  /\ res.raised = "none"
  /\ arg.border_width = 2
  /\ arg.border_color = 255
  /\ Len(arg.image) # Len(arg.image[1])
  /\ Len(res.ret) = Len(arg.image) + 4

\* No border.
C22_ZeroWidthReached == op = "add_border" /\ arg.border_width = 0 /\ res.raised = "none"

\* C23: rotate_90 of an H x W x C image returns an image of W x H x C with
\* output[i, j] = image[j, W - 1 - i] at every position (the right edge of the image
\* becomes the top row), the channels of each pixel in their order.
C23_QuarterTurn ==
  op = "rotate_90" =>
    LET H == Len(arg)
        W == Len(arg[1])
        out == res.ret
    IN /\ res.raised = "none"
       /\ Len(out) = W
       /\ \A i \in 0..(W - 1) :
            /\ Len(out[i + 1]) = H
            /\ \A j \in 0..(H - 1) : out[i + 1][j + 1] = arg[j + 1][(W - 1 - i) + 1]

\* An image of three channels that is not square.
C23_Witness ==
  /\ op = "rotate_90"
  /\ res.raised = "none"
  /\ Len(arg) > Len(arg[1])
  /\ Len(arg[1]) > 1
  /\ Len(arg[1][1]) = 3
  /\ Len(res.ret) = Len(arg[1])

\* C24: check_data_quality raises ValueError, and returns neither a result nor an
\* error dictionary, when an item of the input is itself a list of more than one
\* element.
C24_ListItemRaises ==
  (/\ op = "check_data_quality"
   /\ \E i \in 1..Len(arg) : IsList(arg[i]) /\ Len(arg[i].items) > 1) =>
    res = Raised("ValueError")

\* The list of the test: a text, a list of three, a number.
C24_Witness ==
  /\ op = "check_data_quality"
  /\ Len(arg) = 3
  /\ arg[1] = PyStr("a")
  /\ arg[2] = PyList(<<PyInt(0, 1), PyInt(0, 2), PyInt(0, 3)>>)
  /\ arg[3] = PyInt(0, 4)
  /\ res.raised = "ValueError"

\* A list of one element is put into a group.
C24_OneElementReached ==
  /\ op = "check_data_quality"
  /\ \E i \in 1..Len(arg) : IsList(arg[i])
  /\ res.raised = "none"
  /\ res.ret.excluded_non_numeric # <<>>
  /\ res.ret.excluded_nan_none # <<>>

\* C25: whenever check_temporal_quality reports gaps_detected > 0 the result has
\* gap_after_dates with exactly gaps_detected entries, each the valid timestamp that
\* immediately precedes a gap in the sequence of valid timestamps; for every input,
\* invalid or missing entries between valid ones included, and the call does not raise
\* while it builds the list.
C25_GapAfterDates ==
  (op = "check_temporal_quality" /\ DaysOf(arg) # <<>>) =>
    LET days == DaysOf(arg)
        diffs == [i \in 1..(Len(days) - 1) |-> days[i + 1] - days[i]]
        values == {diffs[i] : i \in 1..Len(diffs)}
        count(d) == Cardinality({i \in 1..Len(diffs) : diffs[i] = d})
        modes == {d \in values : \A e \in values : count(e) <= count(d)}
        before(m) == SelectSeq([i \in 1..Len(diffs) |-> i], LAMBDA i : 2 * diffs[i] > 3 * m)
        stamps(m) == [n \in 1..Len(before(m)) |-> <<EpochDay2024 - 1 + days[before(m)[n]], 0, 0>>]
    IN /\ res.raised = "none"
       /\ res.ret.gaps_detected > 0 =>
            /\ "gap_after_dates" \in DOMAIN res.ret
            /\ Len(res.ret.gap_after_dates) = res.ret.gaps_detected
            /\ \E m \in modes : res.ret.gap_after_dates = stamps(m)

\* C25 for the calls that return: what is left fails only by the exception.
C25_GapAfterDatesWhenReturned ==
  (op = "check_temporal_quality" /\ res.raised = "none") => C25_GapAfterDates

\* A call that returns gaps with an invalid entry between valid ones.
C25_ReturnedReached ==
  /\ op = "check_temporal_quality"
  /\ res.raised = "none"
  /\ \E i \in 2..(Len(arg) - 1) : ToDatetime(arg[i]) = NaT /\ ToDatetime(arg[i - 1]) # NaT
  /\ "gap_after_dates" \in DOMAIN res.ret

\* The missing entry right before the gap: 1, 2, 3 January, None, 5 January.
C25_NoneBeforeGapReturns ==
  (/\ op = "check_temporal_quality"
   /\ arg = <<PyStr("2024-01-01"), PyStr("2024-01-02"), PyStr("2024-01-03"), NoneItem,
              PyStr("2024-01-05")>>) => res.raised = "none"

\* The texts of the lines of a report.
TextsOf(report) == {report[i].text : i \in 1..Len(report)}

\* The value the report puts after a text.
ValueAfter(report, text) == report[CHOOSE i \in 1..Len(report) : report[i].text = text].value[1]

\* C26: for every dictionary without 'error' that check_data_quality,
\* check_categorical_quality or check_temporal_quality returns, generate_report labels
\* the report with the analyzer's data type and includes the section of that type:
\* 'Statistical Summary:' for numeric, 'Categorical Summary:' for categorical,
\* 'Temporal Summary:' for temporal results.
C26_TypedReport ==
  (/\ op = "generate_report"
   /\ "error" \notin DOMAIN arg
   /\ "data_type" \notin DOMAIN arg) =>
    /\ res.raised = "none"
    /\ arg.analysis = "numerical" =>
         /\ ValueAfter(res.ret, "Data Type: ") \in {"NUMERIC", "NUMERICAL"}
         /\ "Statistical Summary:" \in TextsOf(res.ret)
    /\ arg.analysis = "categorical" =>
         /\ ValueAfter(res.ret, "Data Type: ") = "CATEGORICAL"
         /\ "Categorical Summary:" \in TextsOf(res.ret)
    /\ arg.analysis = "temporal" =>
         /\ ValueAfter(res.ret, "Data Type: ") = "TEMPORAL"
         /\ "Temporal Summary:" \in TextsOf(res.ret)

\* What the code does with an analyzer's result: the type is unknown and the report
\* has no section of a type.
C26_UnknownType ==
  (/\ op = "generate_report"
   /\ "error" \notin DOMAIN arg
   /\ "data_type" \notin DOMAIN arg) =>
    /\ res.raised = "none"
    /\ ValueAfter(res.ret, "Data Type: ") = "UNKNOWN"
    /\ TextsOf(res.ret) \cap {"Statistical Summary:", "Categorical Summary:", "Temporal Summary:"} = {}

\* The report of the numeric analysis of [1, 3, 'abc'].
C26_NumericReached ==
  /\ op = "generate_report"
  /\ "data_type" \notin DOMAIN arg
  /\ "error" \notin DOMAIN arg
  /\ arg.analysis = "numerical"
  /\ arg["valid data points"] = 2
  /\ res.raised = "none"

\* A dictionary with the key 'data_type' does get its section.
C26_SectionReached ==
  /\ op = "generate_report"
  /\ "data_type" \in DOMAIN arg
  /\ arg.data_type = "categorical"
  /\ res.raised = "none"
  /\ "Categorical Summary:" \in TextsOf(res.ret)
  /\ "Frequency Distribution:" \in TextsOf(res.ret)

\* C27: in check_categorical_quality every item that is None or a NaN float is counted
\* in missing_none and never in invalid_type_count, and such an item alone never
\* triggers the warning 'Float detected'.
C27_NaNIsMissing ==
  (/\ op = "check_categorical_quality"
   /\ res.raised = "none"
   /\ "error" \notin DOMAIN res.ret) =>
    LET fraction(item) == IsFloat(item) /\ ~item.nan /\ ~FloatIsWhole(item)
        float_detected == /\ "warnings" \in DOMAIN res.ret
                          /\ \E i \in 1..Len(res.ret.warnings) :
                               res.ret.warnings[i] = "Float detected, did you want numerical analysis?"
    IN /\ res.ret.missing_none = Cardinality({i \in 1..Len(arg) : PdIsna(arg[i])})
       /\ res.ret.invalid_type_count = Cardinality({i \in 1..Len(arg) : fraction(arg[i])})
       /\ float_detected => \E i \in 1..Len(arg) : fraction(arg[i])

\* C27 for None alone: None is counted in missing_none, which counts nothing else.
C27_NoneIsMissing ==
  (/\ op = "check_categorical_quality"
   /\ res.raised = "none"
   /\ "error" \notin DOMAIN res.ret) =>
    res.ret.missing_none = Cardinality({i \in 1..Len(arg) : IsNone(arg[i])})

\* ['a', nan] is reported with one invalid type, no missing value and the warning.
C27_NaNReached ==
  /\ op = "check_categorical_quality"
  /\ arg = <<PyStr("a"), FloatNaN>>
  /\ res.ret.missing_none = 0
  /\ res.ret.invalid_type_count = 1
  /\ res.ret.warnings = <<"Float detected, did you want numerical analysis?">>

\* The sum of the counts of a frequency distribution.
RECURSIVE SumOfCounts(_, _)
SumOfCounts(counts, keys) ==
  IF keys = {} THEN 0
  ELSE LET key == CHOOSE k \in keys : TRUE
       IN counts[key] + SumOfCounts(counts, keys \ {key})

\* C28: in every result of check_categorical_quality that is no error each item of
\* the input is counted exactly once: total_values is the sum of valid_categories,
\* missing_none, missing_empty_string and invalid_type_count; the counts of the
\* frequency distribution sum to valid_categories, and the unique count is the
\* number of its keys.
C28_CountedOnce ==
  (/\ op = "check_categorical_quality"
   /\ res.raised = "none"
   /\ "error" \notin DOMAIN res.ret) =>
    /\ res.ret.total_values = Len(arg)
    /\ res.ret.total_values = res.ret.valid_categories + res.ret.missing_none
                              + res.ret.missing_empty_string + res.ret.invalid_type_count
    /\ SumOfCounts(res.ret.frequency_distribution, DOMAIN res.ret.frequency_distribution)
         = res.ret.valid_categories
    /\ res.ret.unique_count = Cardinality(DOMAIN res.ret.frequency_distribution)

\* A result in which every count is positive.
C28_Witness ==
  /\ op = "check_categorical_quality"
  /\ res.raised = "none"
  /\ "error" \notin DOMAIN res.ret
  /\ res.ret.valid_categories > 0
  /\ res.ret.missing_none > 0
  /\ res.ret.missing_empty_string > 0
  /\ res.ret.invalid_type_count > 0

\* A category counted twice next to another one, 1 and 1.0 under one key.
C28_RepeatedReached ==
  /\ op = "check_categorical_quality"
  /\ arg = <<PyInt(0, 1), PyFloat(2), PyStr("a"), PyFloat(3)>>
  /\ res.ret.unique_count = 2
  /\ res.ret.valid_categories = 3

\* C29: in every result that analyze_csv_file obtains from check_data_quality
\* excluded_non_numeric is empty: a cell of the first column that is no number is
\* coerced to NaN before the analysis and is found in excluded_nan_none, whose length
\* is total_rows minus the valid data points.
C29_CoercedToNaN ==
  (op = "analyze_csv_file" /\ arg.file.kind = "csv") =>
    LET cells == arg.file.cells
        others == SelectSeq(cells, LAMBDA c : ~IsNumberText(c))
    IN /\ res.raised = "none"
       /\ res.ret.excluded_non_numeric = <<>>
       /\ res.ret.excluded_nan_none = [i \in 1..Len(others) |-> FloatNaN]
       /\ Len(res.ret.excluded_nan_none) = res.ret.total_rows - res.ret.valid_data_points

\* A file with a number, a word and an empty cell in its first column.
C29_Witness ==
  /\ op = "analyze_csv_file"
  /\ arg.file.kind = "csv"
  /\ {"abc", "", "2.5"} \subseteq {arg.file.cells[i] : i \in 1..Len(arg.file.cells)}
  /\ res.raised = "none"
  /\ Len(res.ret.excluded_nan_none) = 2
  /\ res.ret.valid_data_points = res.ret.total_rows - 2

\* A file without a number: the error dictionary lists every cell as NaN.
C29_NoNumberReached ==
  /\ op = "analyze_csv_file"
  /\ arg.file.kind = "csv"
  /\ arg.file.cells = <<"abc", "abc">>
  /\ "error" \in DOMAIN res.ret
  /\ res.ret.excluded_nan_none = <<FloatNaN, FloatNaN>>

C30_EverythingReached ==
  /\ op = "sample_indices"
  /\ arg = 97
  /\ res.ret = 0..96

\* Of two items only the first is inspected.
C30_TwoReached ==
  /\ op = "sample_indices"
  /\ arg = 2
  /\ res.ret = {0}

====
